---------------------------- MODULE Spec2Model ----------------------------
(***************************************************************************)
(* The Swarm: capability-tier model selection (selector.py, hardware.py,   *)
(* registry.py, downloader.py, config.py) and the bounded orchestration    *)
(* loop (orchestrator.py), as state machines.                              *)
(*                                                                         *)
(*   Spec        one task-mode run of SwarmOrchestrator.run: coder         *)
(*               selection followed by _run_loop.                          *)
(*   SpecSelect  calls of ModelSelector.select_for_task against a          *)
(*               registry, a package manager and a hardware probe.         *)
(*                                                                         *)
(* The history of _run_loop is kept through what the code reads of it:     *)
(* its length, its last entry (history[0] is read only when it is the      *)
(* last entry) and whether some test_skill entry succeeded; the text of    *)
(* the vote prompt built from history[-3:] goes to the voters, whose       *)
(* answer is any action of the vocabulary.  A call of select_for_task is   *)
(* one step, with one reading of the available memory.  An exception that  *)
(* nothing catches ends the run in pc = "crashed".                         *)
(*                                                                         *)
(*   SpecEvict   calls of ModelUninstaller.cleanup_unused and              *)
(*               free_space_for on a registry filled by ensure_available   *)
(*               and record_usage.                                         *)
(*   SpecVote    calls of SwarmVoter.vote; SpecVoteFair adds progress.     *)
(*   SpecEnsure  calls of ModelDownloader.ensure_available.                *)
(*   SpecShared  two processes, each with its own ModelRegistry, on one    *)
(*               REGISTRY_FILE.                                            *)
(*   SpecParse   calls of SwarmVoter._parse_action on short texts.         *)
(***************************************************************************)
EXTENDS Integers, Sequences, FiniteSets, TLC

VARIABLES
    installed,            \* `ollama list`: the resident names, in listing order
    total_ram_gb,         \* psutil.virtual_memory().total, in GB
    auto_download,        \* ModelDownloader.auto_download (SWARM_AUTO_DOWNLOAD)
    downloaded_by_swarm,  \* registry record: "downloaded_by_swarm" (a list)
    usage,                \* registry record: "usage" (id -> count)
    sel,                  \* the last select_for_task call: its inputs and its outcome
    ncalls,               \* select_for_task calls made so far
    pc,                   \* where SwarmOrchestrator.run stands
    iteration,            \* _run_loop: iteration
    history_len,          \* _run_loop: len(history)
    history_last,         \* _run_loop: history[-1], the last (action, result)
    tested_ok,            \* _run_loop: some test_skill entry of history succeeded
    skill_code,           \* _run_loop: skill_code, the artifact
    voted,                \* _run_loop: decision["action"] of the current iteration
    action,               \* _run_loop: action, after the forced workflow
    skill_file,           \* agent_workspace/skills/swarm_skill.py, "" before any write
    ret,                  \* the record run returns
    ev,                   \* the last ModelUninstaller call: its inputs and its outcome
    vote,                 \* the last SwarmVoter.vote call: its inputs and its outcome
    dl,                   \* the last ensure_available call: its inputs and its outcome
    registry_file,        \* ModelRegistry.REGISTRY_FILE: the record on disk
    loaded,               \* per process sharing the file: its ModelRegistry._registry
    parsed                \* a response text and what _parse_action made of it

vars == <<installed, total_ram_gb, auto_download, downloaded_by_swarm, usage, sel,
          ncalls, pc, iteration, history_len, history_last, tested_ok,
          skill_code, voted, action, skill_file, ret, ev, vote, dl,
          registry_file, loaded, parsed>>

hwVars   == <<total_ram_gb, auto_download>>
regVars  == <<downloaded_by_swarm, usage>>
loopVars == <<iteration, history_len, history_last, tested_ok,
             skill_code, voted, action, skill_file>>
fileVars == <<registry_file, loaded>>
obsVars  == <<ev, vote, dl, fileVars, parsed>>

-----------------------------------------------------------------------------
(* config.py *)

\* MODEL_CATALOG's keys in dict (insertion) order.
CatalogOrder ==
    << "qwen2.5:0.5b", "tinyllama", "qwen2.5-coder:1.5b", "qwen2.5-coder:3b", "phi3:mini" >>

CatalogIds == { CatalogOrder[i] : i \in 1..Len(CatalogOrder) }

MODEL_CATALOG ==
    [ m \in CatalogIds |->
        CASE m = "qwen2.5:0.5b" ->
               [ size_mb |-> 397, ram_mb |-> 500, tier |-> 0,
                 capabilities |-> {"classification", "voting", "simple_code", "routing"},
                 always_keep |-> TRUE ]
          [] m = "tinyllama" ->
               [ size_mb |-> 637, ram_mb |-> 800, tier |-> 0,
                 capabilities |-> {"classification", "voting", "review", "routing"},
                 always_keep |-> FALSE ]
          [] m = "qwen2.5-coder:1.5b" ->
               [ size_mb |-> 986, ram_mb |-> 1200, tier |-> 1,
                 capabilities |-> {"code_generation", "debugging", "refactoring"},
                 always_keep |-> FALSE ]
          [] m = "qwen2.5-coder:3b" ->
               [ size_mb |-> 1900, ram_mb |-> 2500, tier |-> 2,
                 capabilities |-> {"complex_code", "architecture", "reasoning"},
                 always_keep |-> FALSE ]
          [] OTHER ->  \* "phi3:mini"
               [ size_mb |-> 2200, ram_mb |-> 2800, tier |-> 2,
                 capabilities |-> {"reasoning", "review", "analysis"},
                 always_keep |-> FALSE ] ]

TaskTypes == {"routing", "code_generation", "simple_code", "voting", "review", "debugging"}

\* TASK_REQUIREMENTS; complexity_upgrade is a set of <<label, tier>> pairs, empty
\* where the entry has none.  Any other task type gets {} (ReqOf below).
TASK_REQUIREMENTS ==
    [ t \in TaskTypes |->
        CASE t = "routing" ->
               [ min_capabilities |-> {"classification"}, min_tier |-> 0,
                 complexity_upgrade |-> {} ]
          [] t = "code_generation" ->
               [ min_capabilities |-> {"code_generation"}, min_tier |-> 1,
                 complexity_upgrade |-> { <<"medium", 1>>, <<"complex", 2>> } ]
          [] t = "simple_code" ->
               [ min_capabilities |-> {"simple_code"}, min_tier |-> 0,
                 complexity_upgrade |-> {} ]
          [] t = "voting" ->
               [ min_capabilities |-> {"voting"}, min_tier |-> 0,
                 complexity_upgrade |-> {} ]
          [] t = "review" ->
               [ min_capabilities |-> {"review"}, min_tier |-> 0,
                 complexity_upgrade |-> {} ]
          [] OTHER ->  \* "debugging"
               [ min_capabilities |-> {"debugging"}, min_tier |-> 1,
                 complexity_upgrade |-> {} ] ]

\* HARDWARE_PROFILES[profile]["max_model_tier"]
ProfileMaxTier(profile) == IF profile = "minimal" THEN 1 ELSE 2

DEFAULT_ROUTER_MODEL == "qwen2.5:0.5b"

\* None, the value `if not coder_model` tests for.
NotFound == ""


-----------------------------------------------------------------------------
(* Bounds of the model *)

\* select_for_task calls per behaviour: the calls of SpecSelect; in Spec the
\* coder selection and the quick_vote fallbacks of one run.
MaxCalls == 2

\* Cap of a usage counter.
MaxUsage == 3

\* Consecutive `ollama pull` failures within one call.
MaxPullFailures == 1

-----------------------------------------------------------------------------
(* The package manager (ollama) and the hardware probe *)

\* Names `ollama list` can show (InitialInstalled draws from them).  A name
\* pulled without a tag is listed under the tag "latest" (registry.py:
\* "model vs model:latest"), so the bare "tinyllama" is never listed;
\* "llama3:8b" is a model outside the catalog.
ResidentNames ==
    (CatalogIds \ {"tinyllama"}) \cup {"tinyllama:latest", "llama3:8b"}

\* The name `ollama list` shows after `ollama pull model` succeeded.
ListedName(model) == IF model = "tinyllama" THEN "tinyllama:latest" ELSE model

\* model.split(":")[0]
BaseName(name) ==
    CASE name \in {"qwen2.5:0.5b"} -> "qwen2.5"
      [] name \in {"tinyllama", "tinyllama:latest"} -> "tinyllama"
      [] name \in {"qwen2.5-coder:1.5b", "qwen2.5-coder:3b"} -> "qwen2.5-coder"
      [] name \in {"phi3:mini"} -> "phi3"
      [] OTHER -> "llama3"

Range(s) == { s[i] : i \in 1..Len(s) }

\* Available memory (MB) the probe may report: 1000 MB fits qwen2.5:0.5b
\* alone, 8000 MB fits every catalog model, and 4000 MB is the point where
\* phi3:mini's 2800 MB is exactly 70% of it.
AvailValues == {1000, 4000, 8000}

\* Total memory (GB) the probe may report: one below and one above the
\* "minimal" threshold.
TotalRamValues == {4, 8}

\* HardwareDetector.get_profile
get_profile(ram) ==
    IF ram < 6 THEN "minimal"
    ELSE IF ram < 12 THEN "limited"
    ELSE IF ram < 24 THEN "moderate"
    ELSE "powerful"

\* HardwareDetector.get_max_tier
get_max_tier(ram) == ProfileMaxTier(get_profile(ram))

\* Mutant of can_fit_model: the 0.7 margin left out.
CanFitWithoutMargin(info, available) == info.ram_mb < available

\* HardwareDetector.can_fit_model: ram_mb < available * 0.7, in tenths.
can_fit_model(info, available) == 10 * info.ram_mb < 7 * available

-----------------------------------------------------------------------------
(* registry.py, downloader.py *)

\* ModelRegistry.is_installed: a direct match, else a match of the base names.
is_installed(model, inst) ==
    \/ model \in Range(inst)
    \/ \E i \in 1..Len(inst) : BaseName(inst[i]) = BaseName(model)

\* ModelRegistry.mark_downloaded_by_swarm
mark_downloaded_by_swarm(swarm, model) ==
    IF model \in Range(swarm) THEN swarm ELSE Append(swarm, model)

\* Mutant of record_usage: the counter of every model goes up.
RecordUsageOfAll(u, model) == [m \in DOMAIN u |-> u[m] + 1]

\* Mutant of record_usage: the counter goes down.
RecordUsageDown(u, model) == [u EXCEPT ![model] = @ - 1]

\* ModelRegistry.record_usage
record_usage(u, model) == [u EXCEPT ![model] = @ + 1]

\* Mutant of ensure_available: the pull is invoked whatever auto_download says.
EnsureAvailablePullingAnyway(model, auto, inst, pull_ok) ==
    IF is_installed(model, inst)
    THEN [ok |-> TRUE, pulled |-> FALSE, downloaded |-> FALSE]
    ELSE IF model \notin CatalogIds
    THEN [ok |-> FALSE, pulled |-> FALSE, downloaded |-> FALSE]
    ELSE [ok |-> pull_ok, pulled |-> TRUE, downloaded |-> pull_ok]

\* ModelDownloader.ensure_available (auto: its auto_download) with _download:
\* whether the model is ready (ok), whether `ollama pull` was invoked (pulled)
\* and whether it succeeded (downloaded).  pull_ok: the outcome of the pull,
\* were it invoked; a pull that fails and one that raises return False alike.
ensure_available(model, auto, inst, pull_ok) ==
    IF is_installed(model, inst)
    THEN [ok |-> TRUE, pulled |-> FALSE, downloaded |-> FALSE]
    ELSE IF ~auto
    THEN [ok |-> FALSE, pulled |-> FALSE, downloaded |-> FALSE]
    ELSE IF model \notin CatalogIds
    THEN [ok |-> FALSE, pulled |-> FALSE, downloaded |-> FALSE]
    ELSE [ok |-> pull_ok, pulled |-> TRUE, downloaded |-> pull_ok]

-----------------------------------------------------------------------------
(* selector.py *)

\* TASK_REQUIREMENTS.get(task_type, {}) with the .get defaults of lines 33-36.
ReqOf(task_type) ==
    IF task_type \in TaskTypes
    THEN TASK_REQUIREMENTS[task_type]
    ELSE [min_capabilities |-> {}, min_tier |-> 0, complexity_upgrade |-> {}]

\* select_for_task, lines 33-37: min_tier after the complexity upgrade.
EffectiveMinTier(task_type, complexity) ==
    LET req == ReqOf(task_type)
        up  == { p \in req.complexity_upgrade : p[1] = complexity }
    IN  IF up # {} THEN (CHOOSE p \in up : TRUE)[2] ELSE req.min_tier

\* select_for_task, line 39
EffectiveMaxTier(ram) ==
    LET h == get_max_tier(ram) IN IF h < 2 THEN h ELSE 2

\* list.sort(key=size_mb) is stable: m goes after every element that is not
\* larger than it.
RECURSIVE InsertBySize(_, _)
InsertBySize(m, s) ==
    IF s = << >> THEN << m >>
    ELSE IF MODEL_CATALOG[m].size_mb < MODEL_CATALOG[Head(s)].size_mb
         THEN << m >> \o s
         ELSE << Head(s) >> \o InsertBySize(m, Tail(s))

RECURSIVE SortBySize(_)
SortBySize(s) ==
    IF s = << >> THEN << >>
    ELSE InsertBySize(s[Len(s)], SortBySize(SubSeq(s, 1, Len(s) - 1)))

\* Mutant of Eligible: the capability filter left out.
EligibleByTierAlone(model, min_tier, min_caps, max_tier) ==
    /\ MODEL_CATALOG[model].tier >= min_tier
    /\ MODEL_CATALOG[model].tier <= max_tier

\* The tier window and capability filter of _get_candidates, lines 72-78.
Eligible(model, min_tier, min_caps, max_tier) ==
    /\ MODEL_CATALOG[model].tier >= min_tier
    /\ MODEL_CATALOG[model].tier <= max_tier
    /\ min_caps \subseteq MODEL_CATALOG[model].capabilities

\* ModelSelector._get_candidates
get_candidates(min_tier, min_caps, max_tier) ==
    SortBySize(SelectSeq(CatalogOrder,
                         LAMBDA m : Eligible(m, min_tier, min_caps, max_tier)))


\* Mutant of ResidentPass: the loop runs over the listing and takes the first
\* listed name that is a fitting candidate.
ResidentPassInListingOrder(candidates, inst, available) ==
    LET hits == { i \in 1..Len(inst) :
                    /\ inst[i] \in Range(candidates)
                    /\ can_fit_model(MODEL_CATALOG[inst[i]], available) }
    IN  IF hits = {} THEN ""
        ELSE inst[CHOOSE i \in hits : \A j \in hits : i <= j]

\* select_for_task, lines 44-49: the first candidate that is listed and fits,
\* "" when there is none.
ResidentPass(candidates, inst, available) ==
    LET hits == { i \in 1..Len(candidates) :
                    /\ candidates[i] \in Range(inst)
                    /\ can_fit_model(MODEL_CATALOG[candidates[i]], available) }
    IN  IF hits = {} THEN ""
        ELSE candidates[CHOOSE i \in hits : \A j \in hits : i <= j]

\* select_for_task, lines 52-57, from candidate i on: every fitting candidate
\* goes to ensure_available until one returns True.  The first `fails` pulls
\* fail and the next one succeeds.  ensured and pulled list the models
\* ensure_available was called for and `ollama pull` was invoked for.
RECURSIVE AcquisitionPass(_, _, _, _, _, _, _, _)
AcquisitionPass(candidates, i, inst, available, auto, fails, ensured, pulled) ==
    IF i > Len(candidates)
    THEN [model |-> "", downloaded |-> FALSE, ensured |-> ensured, pulled |-> pulled]
    ELSE LET m == candidates[i]
             e == ensure_available(m, auto, inst, fails = 0)
         IN  IF ~can_fit_model(MODEL_CATALOG[m], available)
             THEN AcquisitionPass(candidates, i + 1, inst, available, auto,
                                  fails, ensured, pulled)
             ELSE IF e.ok
             THEN [model |-> m, downloaded |-> e.downloaded,
                   ensured |-> Append(ensured, m),
                   pulled |-> IF e.pulled THEN Append(pulled, m) ELSE pulled]
             ELSE AcquisitionPass(candidates, i + 1, inst, available, auto,
                                  IF e.pulled THEN fails - 1 ELSE fails,
                                  Append(ensured, m),
                                  IF e.pulled THEN Append(pulled, m) ELSE pulled)

\* select_for_task, lines 59-63: the first listed name that is a catalog key,
\* else DEFAULT_ROUTER_MODEL.
Fallback(inst) ==
    LET hits == { i \in 1..Len(inst) : inst[i] \in CatalogIds }
    IN  IF hits = {} THEN DEFAULT_ROUTER_MODEL
        ELSE inst[CHOOSE i \in hits : \A j \in hits : i <= j]

\* ModelSelector.select_for_task: the value returned, the return path
\* ("resident", "acquired", "fallback"), and what the acquisition pass did.
select_for_task(task_type, complexity, offline, inst, available, ram, auto, fails) ==
    LET min_tier   == EffectiveMinTier(task_type, complexity)
        min_caps   == ReqOf(task_type).min_capabilities
        max_tier   == EffectiveMaxTier(ram)
        candidates == get_candidates(min_tier, min_caps, max_tier)
        res        == ResidentPass(candidates, inst, available)
        acq        == AcquisitionPass(candidates, 1, inst, available, auto,
                                      fails, << >>, << >>)
    IN  IF res # ""
        THEN [ret |-> res, path |-> "resident", downloaded |-> FALSE,
              ensured |-> << >>, pulled |-> << >>]
        ELSE IF ~offline /\ acq.model # ""
        THEN [ret |-> acq.model, path |-> "acquired", downloaded |-> acq.downloaded,
              ensured |-> acq.ensured, pulled |-> acq.pulled]
        ELSE [ret |-> Fallback(inst), path |-> "fallback", downloaded |-> FALSE,
              ensured |-> IF offline THEN << >> ELSE acq.ensured,
              pulled |-> IF offline THEN << >> ELSE acq.pulled]


\* select_voters' loop over candidates[:count]: ensure_available with
\* auto_download = not offline on each, in order; pull_ok holds the models
\* whose pull succeeds, were it invoked.
RECURSIVE EnsureVoters(_, _, _, _, _, _, _)
EnsureVoters(candidates, i, offline, inst, swarm, pull_ok, selected) ==
    IF i > Len(candidates)
    THEN [selected |-> selected, installed |-> inst, downloaded_by_swarm |-> swarm]
    ELSE LET model == candidates[i]
             e == ensure_available(model, ~offline, inst, model \in pull_ok)
         IN EnsureVoters(candidates, i + 1, offline,
                         IF e.downloaded THEN << ListedName(model) >> \o inst ELSE inst,
                         IF e.downloaded THEN mark_downloaded_by_swarm(swarm, model)
                                         ELSE swarm,
                         pull_ok,
                         IF e.ok THEN Append(selected, model) ELSE selected)

\* ModelSelector.select_voters: the voters, and the listing and the registry
\* it leaves.  The tier limit is get_max_tier, without the cap of 2.
select_voters(count, offline, inst, swarm, ram, pull_ok) ==
    LET all == get_candidates(0, {"voting"}, get_max_tier(ram))
        first == SubSeq(all, 1, IF Len(all) < count THEN Len(all) ELSE count)
        r == EnsureVoters(first, 1, offline, inst, swarm, pull_ok, << >>)
    IN [r EXCEPT !.selected = IF r.selected = << >>
                              THEN << DEFAULT_ROUTER_MODEL >>
                              ELSE r.selected]

-----------------------------------------------------------------------------
(* registry.py (get_least_used), uninstaller.py *)

\* list.remove(x): the list without the first occurrence of x.
RECURSIVE RemoveFirst(_, _)
RemoveFirst(s, x) ==
    IF s = << >> THEN << >>
    ELSE IF Head(s) = x THEN Tail(s)
    ELSE << Head(s) >> \o RemoveFirst(Tail(s), x)

\* What `ollama rm model` leaves of the listing.
Unlisted(inst, model) == RemoveFirst(inst, ListedName(model))

\* Mutant of get_least_used: the least used model of the catalog, downloaded
\* by the swarm or not.
GetLeastUsedOfCatalog(swarm, u) ==
    CatalogOrder[CHOOSE i \in 1..Len(CatalogOrder) :
                   \A j \in 1..Len(CatalogOrder) :
                      \/ u[CatalogOrder[i]] < u[CatalogOrder[j]]
                      \/ u[CatalogOrder[i]] = u[CatalogOrder[j]] /\ i <= j]

\* Mutant of get_least_used: the model downloaded first, whatever its usage.
GetFirstDownloaded(swarm, u) ==
    IF swarm = << >> THEN "" ELSE swarm[1]

\* ModelRegistry.get_least_used(): min over downloaded_by_swarm by usage, the
\* first of the list among equals; "" (None) when the list is empty.
get_least_used(swarm, u) ==
    IF swarm = << >> THEN ""
    ELSE swarm[CHOOSE i \in 1..Len(swarm) :
                 \A j \in 1..Len(swarm) :
                    \/ u[swarm[i]] < u[swarm[j]]
                    \/ u[swarm[i]] = u[swarm[j]] /\ i <= j]

\* Mutant of should_remove: the always_keep flag is not looked at.
ShouldRemoveByUsageAlone(model, u) ==
    IF model \notin CatalogIds THEN TRUE ELSE u[model] < 3

\* ModelUninstaller._should_remove
should_remove(model, u) ==
    IF model \notin CatalogIds THEN TRUE
    ELSE IF MODEL_CATALOG[model].always_keep THEN FALSE
    ELSE u[model] < 3

\* cleanup_unused, lines 30-38, over the copy of downloaded_by_swarm: the
\* models `ollama rm` was invoked on and those it removed.  rm_ok: the models
\* whose removal succeeds, were it invoked.
RECURSIVE CleanupLoop(_, _, _, _, _, _)
CleanupLoop(models, keep_models, u, rm_ok, attempted, removed) ==
    IF models = << >>
    THEN [attempted |-> attempted, removed |-> removed]
    ELSE LET model == Head(models)
         IN  IF model \in keep_models \/ ~should_remove(model, u)
             THEN CleanupLoop(Tail(models), keep_models, u, rm_ok, attempted, removed)
             ELSE CleanupLoop(Tail(models), keep_models, u, rm_ok,
                              Append(attempted, model),
                              IF model \in rm_ok THEN Append(removed, model)
                                                 ELSE removed)

\* The models of attempted whose `ollama rm` succeeded.
RECURSIVE Succeeded(_, _)
Succeeded(attempted, rm_ok) ==
    IF attempted = << >> THEN << >>
    ELSE IF Head(attempted) \in rm_ok
    THEN << Head(attempted) >> \o Succeeded(Tail(attempted), rm_ok)
    ELSE Succeeded(Tail(attempted), rm_ok)

\* downloaded_by_swarm and the listing after the removals of s, in order.
RECURSIVE DropAll(_, _)
DropAll(swarm, s) ==
    IF s = << >> THEN swarm ELSE DropAll(RemoveFirst(swarm, Head(s)), Tail(s))

RECURSIVE UnlistAll(_, _)
UnlistAll(inst, s) ==
    IF s = << >> THEN inst ELSE UnlistAll(Unlisted(inst, Head(s)), Tail(s))

\* Mutant of cleanup_unused: a removed model stays in downloaded_by_swarm.
CleanupUnusedKeepingRecord(keep_models, swarm, u, rm_ok) ==
    LET r == CleanupLoop(swarm, keep_models, u, rm_ok, << >>, << >>)
    IN  [count |-> Len(r.removed), attempted |-> r.attempted, removed |-> r.removed,
         downloaded_by_swarm |-> swarm]

\* ModelUninstaller.cleanup_unused: the count returned with what was
\* attempted and removed, and the registry list it leaves.
cleanup_unused(keep_models, swarm, u, rm_ok) ==
    LET r == CleanupLoop(swarm, keep_models, u, rm_ok, << >>, << >>)
    IN  [count |-> Len(r.removed), attempted |-> r.attempted, removed |-> r.removed,
         downloaded_by_swarm |-> DropAll(swarm, r.removed)]

\* Mutant of FreeLoop: a removal that failed is tried once more before the
\* loop gives up.
RECURSIVE FreeLoopRetrying(_, _, _, _, _, _, _)
FreeLoopRetrying(required_mb, free, swarm, u, rm_ok, attempted, removed) ==
    IF ~(free < required_mb + 500)
    THEN [ok |-> TRUE, attempted |-> attempted, removed |-> removed,
          downloaded_by_swarm |-> swarm, free |-> free]
    ELSE LET least_used == get_least_used(swarm, u)
         IN  IF least_used = ""
             THEN [ok |-> FALSE, attempted |-> attempted, removed |-> removed,
                   downloaded_by_swarm |-> swarm, free |-> free]
             ELSE IF least_used \notin rm_ok
             THEN [ok |-> FALSE,
                   attempted |-> attempted \o << least_used, least_used >>,
                   removed |-> removed, downloaded_by_swarm |-> swarm, free |-> free]
             ELSE FreeLoopRetrying(required_mb, free + MODEL_CATALOG[least_used].size_mb,
                                   RemoveFirst(swarm, least_used), u, rm_ok,
                                   Append(attempted, least_used),
                                   Append(removed, least_used))

\* free_space_for, lines 83-95: while the free space read is below
\* required_mb + 500, the least-used model of downloaded_by_swarm is removed;
\* the next reading of the disk is higher by the size_mb of what was removed.
RECURSIVE FreeLoop(_, _, _, _, _, _, _)
FreeLoop(required_mb, free, swarm, u, rm_ok, attempted, removed) ==
    IF ~(free < required_mb + 500)
    THEN [ok |-> TRUE, attempted |-> attempted, removed |-> removed,
          downloaded_by_swarm |-> swarm, free |-> free]
    ELSE LET least_used == get_least_used(swarm, u)
         IN  IF least_used = ""
             THEN [ok |-> FALSE, attempted |-> attempted, removed |-> removed,
                   downloaded_by_swarm |-> swarm, free |-> free]
             ELSE IF least_used \notin rm_ok
             THEN [ok |-> FALSE, attempted |-> Append(attempted, least_used),
                   removed |-> removed, downloaded_by_swarm |-> swarm, free |-> free]
             ELSE FreeLoop(required_mb, free + MODEL_CATALOG[least_used].size_mb,
                           RemoveFirst(swarm, least_used), u, rm_ok,
                           Append(attempted, least_used),
                           Append(removed, least_used))

\* Mutant of free_space_for: the 500 MB margin is left out of the test that
\* ends the loop.
FreeSpaceWithoutMargin(required_mb, free, swarm, u, rm_ok) ==
    IF free > required_mb + 500
    THEN [ok |-> TRUE, attempted |-> << >>, removed |-> << >>,
          downloaded_by_swarm |-> swarm, free |-> free]
    ELSE FreeLoop(required_mb - 500, free, swarm, u, rm_ok, << >>, << >>)

\* Mutant of free_space_for: an empty downloaded_by_swarm is reported as
\* success.
FreeSpaceEmptyIsSuccess(required_mb, free, swarm, u, rm_ok) ==
    IF free > required_mb + 500 \/ swarm = << >>
    THEN [ok |-> TRUE, attempted |-> << >>, removed |-> << >>,
          downloaded_by_swarm |-> swarm, free |-> free]
    ELSE FreeLoop(required_mb, free, swarm, u, rm_ok, << >>, << >>)

\* ModelUninstaller.free_space_for: the value returned with what was
\* attempted and removed, the registry list it leaves and the last reading
\* of the free space (MB; free_gb * 1024 is exact on a power of two).
free_space_for(required_mb, free, swarm, u, rm_ok) ==
    IF free > required_mb + 500
    THEN [ok |-> TRUE, attempted |-> << >>, removed |-> << >>,
          downloaded_by_swarm |-> swarm, free |-> free]
    ELSE FreeLoop(required_mb, free, swarm, u, rm_ok, << >>, << >>)

-----------------------------------------------------------------------------
(* State *)

\* What `ollama list` may show when the program starts.
InitialInstalled ==
    { << >>,
      << "qwen2.5:0.5b" >>,
      << "phi3:mini" >>,
      << "qwen2.5-coder:3b" >>,
      << "llama3:8b" >>,
      << "tinyllama:latest", "qwen2.5-coder:1.5b" >>,
      << "qwen2.5-coder:1.5b", "phi3:mini" >>,
      << "phi3:mini", "qwen2.5:0.5b" >> }

\* sel before any call.
NoCall ==
    [called |-> FALSE, task_type |-> "", complexity |-> "", offline |-> FALSE,
     installed |-> << >>, available |-> 0, usage |-> [m \in CatalogIds |-> 0],
     ret |-> "", path |-> "", downloaded |-> FALSE,
     ensured |-> << >>, pulled |-> << >>]

\* history_last while the history is empty.
NoEntry == [action |-> "", result |-> [success |-> FALSE, message |-> ""]]

\* The orchestrator's variables while no run is in progress.
LoopIdle ==
    /\ iteration = 0
    /\ history_len = 0
    /\ history_last = NoEntry
    /\ tested_ok = FALSE
    /\ skill_code = ""
    /\ voted = ""
    /\ action = ""
    /\ skill_file = ""
    /\ ret = [success |-> FALSE, result |-> "", error |-> "", iterations |-> 0]

\* ModelRegistry._load on a missing file, the package manager's listing and
\* the hardware at start.
\* No call of the uninstaller yet.
NoEviction ==
    [called |-> FALSE, op |-> "", keep_models |-> {}, required_mb |-> 0, free |-> 0,
     swarm |-> << >>, installed |-> << >>, usage |-> [m \in CatalogIds |-> 0],
     attempted |-> << >>, gone |-> << >>, removed |-> << >>, count |-> 0,
     ok |-> FALSE, free_after |-> 0]

\* No call of vote yet.
NoVote ==
    [called |-> FALSE, voters |-> << >>, responses |-> << >>, raised |-> FALSE,
     action |-> "", confidence |-> << 0, 1 >>, votes |-> << >>, chats |-> 0,
     router |-> "", reply |-> << >>, blocked |-> FALSE]

\* The processes that share REGISTRY_FILE, and the models they act on.
Procs == {1, 2}
SharedModels == {"qwen2.5:0.5b", "tinyllama"}

\* _load, line 25: the record when there is no file.
EmptyRegistry ==
    [downloaded_by_swarm |-> << >>, usage |-> [m \in SharedModels |-> 0]]

\* A process that has not constructed its ModelRegistry.  calls counts its
\* record_usage calls per model.
NotStarted ==
    [started |-> FALSE, registry |-> EmptyRegistry,
     calls |-> [m \in SharedModels |-> 0]]

\* No call of _parse_action yet.
NoParse == [called |-> FALSE, response |-> << >>, action |-> ""]

\* No call of ensure_available yet.
NoEnsure ==
    [called |-> FALSE, model |-> "", auto |-> FALSE, installed |-> << >>,
     swarm |-> << >>, usage |-> [m \in CatalogIds |-> 0], pulls |-> 0,
     pull_ok |-> FALSE, ret |-> FALSE]

InitEnv ==
    /\ ev = NoEviction
    /\ vote = NoVote
    /\ dl = NoEnsure
    /\ registry_file = EmptyRegistry
    /\ loaded = [p \in Procs |-> NotStarted]
    /\ parsed = NoParse
    /\ installed \in InitialInstalled
    /\ total_ram_gb \in TotalRamValues
    /\ auto_download \in BOOLEAN
    /\ downloaded_by_swarm = << >>
    /\ usage = [m \in CatalogIds |-> 0]
    /\ sel = NoCall
    /\ ncalls = 0

\* Pulls that fail before one succeeds.
PullFailures == 0..MaxPullFailures

\* One call of select_for_task with its effects on the registry and on the
\* package manager: a successful pull lists the model (newest first), marks
\* it downloaded_by_swarm; the resident and the acquisition pass record usage.
SelectCallFrom(inst, swarm, task_type, complexity, offline, available) ==
    \E r \in { select_for_task(task_type, complexity, offline, inst, available,
                                total_ram_gb, auto_download, fails) :
                  fails \in PullFailures } :
        /\ sel' = [called |-> TRUE, task_type |-> task_type, complexity |-> complexity,
                   offline |-> offline, installed |-> inst,
                   available |-> available, usage |-> usage,
                   ret |-> r.ret, path |-> r.path, downloaded |-> r.downloaded,
                   ensured |-> r.ensured, pulled |-> r.pulled]
        /\ installed' = IF r.downloaded
                        THEN << ListedName(r.ret) >> \o inst
                        ELSE inst
        /\ downloaded_by_swarm' = IF r.downloaded
                                  THEN mark_downloaded_by_swarm(swarm, r.ret)
                                  ELSE swarm
        /\ usage' = IF r.path \in {"resident", "acquired"}
                    THEN record_usage(usage, r.ret)
                    ELSE usage
        /\ ncalls' = ncalls + 1

\* A call of select_for_task on the current listing and registry.
SelectCall(task_type, complexity, offline, available) ==
    SelectCallFrom(installed, downloaded_by_swarm, task_type, complexity, offline,
                   available)

\* The requests select_for_task is called with: every task type of
\* TASK_REQUIREMENTS and one that is not in it; the complexity label matters
\* to code_generation alone.
Requests ==
    { <<t, "medium">> : t \in TaskTypes \cup {"summarize"} }
        \cup { <<"code_generation", "simple">>, <<"code_generation", "complex">> }

-----------------------------------------------------------------------------
(* SpecSelect: calls of select_for_task *)

InitSelect ==
    /\ InitEnv
    /\ pc = "idle"
    /\ LoopIdle

Select ==
    /\ pc = "idle"
    /\ ncalls < MaxCalls
    /\ \A m \in CatalogIds : usage[m] < MaxUsage
    /\ \E rq \in Requests, offline \in BOOLEAN, available \in AvailValues :
            SelectCall(rq[1], rq[2], offline, available)
    /\ UNCHANGED <<hwVars, obsVars, pc, loopVars, ret>>

NextSelect == Select

SpecSelect == InitSelect /\ [][NextSelect]_vars


-----------------------------------------------------------------------------
(* orchestrator.py *)

MAX_ITERATIONS == 12

\* SwarmVoter._parse_action's vocabulary: what a vote can return.
Vocabulary ==
    { "plan_skill", "write_skill", "test_skill", "analyze_results",
      "complete", "failed", "direct_answer", "retry_plan" }

\* task_info["complexity"] as the analyzer reports it.
Complexities == {"simple", "medium", "complex"}

\* What the coder backend's reply leaves after _plan stripped it: nothing,
\* or one of two programs.
Artifacts == {"", "codeA", "codeB"}

\* How the subprocess of _test ends: exit code 0, another exit code,
\* TimeoutExpired, any other exception.
TestOutcomes == {"exit0", "exit1", "timeout", "error"}

\* last_action["action"] == "test_skill" and last_action["result"]["success"]
LastTestPassed(n, last) ==
    /\ n > 0
    /\ last.action = "test_skill"
    /\ last.result.success

\* Mutant of LoopGuard: the bound taken inclusively.
LoopGuardInclusive(i) == i <= MAX_ITERATIONS

\* Mutant of LoopGuard: the loop gives up one iteration early.
LoopGuardShort(i) == i < MAX_ITERATIONS - 1

\* _run_loop, line 131: the loop condition.
LoopGuard(i) == i < MAX_ITERATIONS

\* Mutant of Forced: a voted complete or failed is honoured before the
\* forced workflow.
ForcedAfterTerminalVote(n, last, code, v) ==
    IF v \in {"complete", "failed"}
    THEN v
    ELSE IF n = 0
    THEN "plan_skill"
    ELSE IF n = 1 /\ last.action = "plan_skill"
    THEN (IF code # "" THEN "write_skill" ELSE "plan_skill")
    ELSE IF n >= 2
    THEN (IF last.action = "write_skill" /\ last.result.success
          THEN "test_skill"
          ELSE IF last.action = "plan_skill" /\ code # ""
          THEN "write_skill"
          ELSE v)
    ELSE v

\* Mutant of Forced: test_skill is forced after any write_skill, successful
\* or not.
ForcedIgnoringWriteResult(n, last, code, v) ==
    IF n = 0
    THEN "plan_skill"
    ELSE IF n = 1 /\ last.action = "plan_skill"
    THEN (IF code # "" THEN "write_skill" ELSE "plan_skill")
    ELSE IF n >= 2
    THEN (IF last.action = "write_skill"
          THEN "test_skill"
          ELSE IF last.action = "plan_skill" /\ code # ""
          THEN "write_skill"
          ELSE v)
    ELSE v

\* Mutant of Forced: from the third iteration on, write_skill is not forced
\* after a plan_skill that left an artifact.
ForcedWithoutWriteAfterPlan(n, last, code, v) ==
    IF n = 0
    THEN "plan_skill"
    ELSE IF n = 1 /\ last.action = "plan_skill"
    THEN (IF code # "" THEN "write_skill" ELSE "plan_skill")
    ELSE IF n >= 2
    THEN (IF last.action = "write_skill" /\ last.result.success
          THEN "test_skill"
          ELSE v)
    ELSE v

\* _run_loop, lines 153-168: the forced workflow applied to the voted action
\* v, for a history of n entries whose last is `last` (history[0] is read
\* only when n = 1, where it is the last entry).
Forced(n, last, code, v) ==
    IF n = 0
    THEN "plan_skill"
    ELSE IF n = 1 /\ last.action = "plan_skill"
    THEN (IF code # "" THEN "write_skill" ELSE "plan_skill")
    ELSE IF n >= 2
    THEN (IF last.action = "write_skill" /\ last.result.success
          THEN "test_skill"
          ELSE IF last.action = "plan_skill" /\ code # ""
          THEN "write_skill"
          ELSE v)
    ELSE v

\* SwarmOrchestrator.run, task mode, lines 62-82: the coder is selected; a
\* falsy selection ends the run, any other enters _run_loop.
Run ==
    /\ pc = "start"
    /\ \E complexity \in Complexities, offline \in BOOLEAN, available \in AvailValues :
            SelectCall("code_generation", complexity, offline, available)
    /\ IF sel'.ret = NotFound
       THEN /\ pc' = "done"
            /\ ret' = [success |-> FALSE, result |-> "",
                       error |-> "No suitable model available", iterations |-> 0]
       ELSE /\ pc' = "loop"
            /\ ret' = ret
    /\ UNCHANGED <<hwVars, obsVars, loopVars>>

\* _run_loop, lines 131-146 and 201-205: the loop condition, the increment
\* and the check of the last test at the top of an iteration.
LoopTop ==
    /\ pc = "loop"
    /\ IF LoopGuard(iteration)
       THEN /\ iteration' = iteration + 1
            /\ IF LastTestPassed(history_len, history_last)
               THEN /\ pc' = "done"
                    /\ ret' = [success |-> TRUE, result |-> skill_code, error |-> "",
                               iterations |-> iteration + 1]
               ELSE /\ pc' = "vote"
                    /\ ret' = ret
       ELSE /\ iteration' = iteration
            /\ pc' = "done"
            /\ ret' = [success |-> FALSE, result |-> "",
                       error |-> "Max iterations reached", iterations |-> iteration]
    /\ UNCHANGED <<installed, hwVars, obsVars, regVars, sel, ncalls, history_len, history_last,
                   tested_ok, skill_code, voted, action, skill_file>>

\* The outcomes of the pulls of select_voters(3): the voters that are not
\* installed and whose pull succeeds.
VoterPulls(inst) ==
    SUBSET { m \in Range(get_candidates(0, {"voting"}, 2)) : ~is_installed(m, inst) }

\* _run_loop, lines 148-168: _vote_on_action and the forced workflow.  A
\* passed test in the history short-circuits to complete without the voter.
\* Else voter.vote selects its voters with select_voters(3), which pulls the
\* ones that are not installed, and some voter responds: the tally is an
\* action of the vocabulary.
VoteOnAction ==
    /\ pc = "vote"
    /\ IF tested_ok
       THEN /\ voted' = "complete"
            /\ UNCHANGED <<installed, regVars>>
       ELSE /\ \E r \in { select_voters(3, FALSE, installed, downloaded_by_swarm,
                                          total_ram_gb, pull_ok) :
                              pull_ok \in VoterPulls(installed) } :
                  /\ installed' = r.installed
                  /\ downloaded_by_swarm' = r.downloaded_by_swarm
                  /\ usage' = usage
            /\ \E v \in Vocabulary : voted' = v
    /\ action' = Forced(history_len, history_last, skill_code, voted')
    /\ pc' = "act"
    /\ UNCHANGED <<hwVars, obsVars, sel, ncalls, iteration, history_len,
                   history_last, tested_ok, skill_code, skill_file, ret>>

\* voter.vote with no response of any voter, up to the backend call of
\* quick_vote: after select_voters(3), quick_vote calls select_router(), i.e.
\* select_for_task("routing", "simple", offline=False).
QuickVoteSelect ==
    /\ pc = "vote"
    /\ ~tested_ok
    /\ ncalls < MaxCalls
    /\ \E r \in { select_voters(3, FALSE, installed, downloaded_by_swarm,
                                   total_ram_gb, pull_ok) :
                       pull_ok \in VoterPulls(installed) } :
         \E available \in AvailValues :
           SelectCallFrom(r.installed, r.downloaded_by_swarm, "routing", "simple",
                          FALSE, available)
    /\ pc' = "quick"
    /\ UNCHANGED <<hwVars, obsVars, loopVars, ret>>

\* quick_vote's backend answers: _parse_action gives an action of the
\* vocabulary, which goes through the forced workflow.
QuickVote ==
    /\ pc = "quick"
    /\ \E v \in Vocabulary : voted' = v
    /\ action' = Forced(history_len, history_last, skill_code, voted')
    /\ pc' = "act"
    /\ UNCHANGED <<installed, hwVars, obsVars, regVars, sel, ncalls, iteration, history_len,
                   history_last, tested_ok, skill_code, skill_file, ret>>

\* quick_vote's backend call, outside any try, raises: the exception leaves
\* vote, _run_loop and run.
VoteRaises ==
    /\ pc = "quick"
    /\ pc' = "crashed"
    /\ UNCHANGED <<installed, hwVars, obsVars, regVars, sel, ncalls, loopVars, ret>>

\* Mutant of ActComplete: complete is recognised only after the action went
\* through _execute_action and into the history.
ActCompleteAfterExecute ==
    /\ pc = "act"
    /\ action = "complete"
    /\ pc' = "done"
    /\ ret' = [success |-> TRUE, result |-> skill_code, error |-> "",
               iterations |-> iteration]
    /\ history_len' = history_len + 1
    /\ history_last' = [action |-> action,
                        result |-> [success |-> FALSE, message |-> "Unknown action"]]
    /\ UNCHANGED <<installed, hwVars, obsVars, regVars, sel, ncalls, iteration, tested_ok,
                   skill_code, voted, action, skill_file>>

\* _run_loop, lines 172-174
ActComplete ==
    /\ pc = "act"
    /\ action = "complete"
    /\ pc' = "done"
    /\ ret' = [success |-> TRUE, result |-> skill_code, error |-> "",
               iterations |-> iteration]
    /\ UNCHANGED <<installed, hwVars, obsVars, regVars, sel, ncalls, loopVars>>

\* _run_loop, lines 176-182
ActFailed ==
    /\ pc = "act"
    /\ action = "failed"
    /\ pc' = "done"
    /\ ret' = [success |-> FALSE, result |-> "",
               error |-> "Max iterations or unrecoverable error",
               iterations |-> iteration]
    /\ UNCHANGED <<installed, hwVars, obsVars, regVars, sel, ncalls, loopVars>>

\* Mutant of Executed: without the return of lines 197-199, a passed test
\* is left to the check at the top of the next iteration.
ExecutedWithoutReturn(result, code) ==
    /\ history_len' = history_len + 1
    /\ history_last' = [action |-> action, result |-> result]
    /\ tested_ok' = (tested_ok \/ (action = "test_skill" /\ result.success))
    /\ skill_code' = code
    /\ pc' = "loop"
    /\ ret' = ret
    /\ voted' = ""
    /\ action' = ""
    /\ UNCHANGED <<installed, hwVars, obsVars, regVars, sel, ncalls, iteration>>

\* Mutant of Executed: only a successful result goes into the history.
ExecutedNotRecordingFailures(result, code) ==
    /\ history_len' = (IF result.success THEN history_len + 1 ELSE history_len)
    /\ history_last' = (IF result.success
                        THEN [action |-> action, result |-> result]
                        ELSE history_last)
    /\ tested_ok' = (tested_ok \/ (action = "test_skill" /\ result.success))
    /\ skill_code' = code
    /\ IF result.success /\ action = "test_skill"
       THEN /\ pc' = "done"
            /\ ret' = [success |-> TRUE, result |-> code, error |-> "",
                       iterations |-> iteration]
       ELSE /\ pc' = "loop"
            /\ ret' = ret
    /\ voted' = ""
    /\ action' = ""
    /\ UNCHANGED <<installed, hwVars, obsVars, regVars, sel, ncalls, iteration>>

\* _run_loop, lines 184-199, for the result _execute_action returned: the
\* history grows, a successful result with "code" replaces the artifact, a
\* successful test_skill returns.  The decision of the iteration is out of
\* use from here on (lines 148-150 assign it anew): voted and action go back
\* to their initial value.
Executed(result, code) ==
    /\ history_len' = history_len + 1
    /\ history_last' = [action |-> action, result |-> result]
    /\ tested_ok' = (tested_ok \/ (action = "test_skill" /\ result.success))
    /\ skill_code' = code
    /\ IF result.success /\ action = "test_skill"
       THEN /\ pc' = "done"
            /\ ret' = [success |-> TRUE, result |-> code, error |-> "",
                       iterations |-> iteration]
       ELSE /\ pc' = "loop"
            /\ ret' = ret
    /\ voted' = ""
    /\ action' = ""
    /\ UNCHANGED <<installed, hwVars, obsVars, regVars, sel, ncalls, iteration>>

\* _execute_action -> _plan: the coder's reply, stripped, is the new artifact.
ActPlan ==
    /\ pc = "act"
    /\ action = "plan_skill"
    /\ \E code \in Artifacts :
         Executed([success |-> TRUE, message |-> "Generated"], code)
    /\ skill_file' = skill_file

\* _plan's backend call raises: nothing catches it.
PlanRaises ==
    /\ pc = "act"
    /\ action = "plan_skill"
    /\ pc' = "crashed"
    /\ UNCHANGED <<installed, hwVars, obsVars, regVars, sel, ncalls, loopVars, ret>>

\* _execute_action -> _write
ActWrite ==
    /\ pc = "act"
    /\ action = "write_skill"
    /\ IF skill_code = ""
       THEN /\ Executed([success |-> FALSE, message |-> "No code to write"], skill_code)
            /\ skill_file' = skill_file
       ELSE /\ Executed([success |-> TRUE, message |-> "Saved"], skill_code)
            /\ skill_file' = skill_code

\* _execute_action -> _test
ActTest ==
    /\ pc = "act"
    /\ action = "test_skill"
    /\ IF skill_code = ""
       THEN Executed([success |-> FALSE, message |-> "No code to test"], skill_code)
       ELSE \E o \in TestOutcomes :
              Executed(IF o = "exit0"
                       THEN [success |-> TRUE, message |-> "Test passed"]
                       ELSE IF o = "exit1"
                       THEN [success |-> FALSE, message |-> "Test failed"]
                       ELSE IF o = "timeout"
                       THEN [success |-> FALSE, message |-> "Test timed out"]
                       ELSE [success |-> FALSE, message |-> "Test error"],
                       skill_code)
    /\ skill_file' = skill_file

\* Mutant of ActUnknown: an action _execute_action does not know ends the
\* run with a failure.
ActUnknownFatal ==
    /\ pc = "act"
    /\ action \notin {"plan_skill", "write_skill", "test_skill", "complete", "failed"}
    /\ pc' = "done"
    /\ ret' = [success |-> FALSE, result |-> "", error |-> "Unknown action",
               iterations |-> iteration]
    /\ UNCHANGED <<installed, hwVars, obsVars, regVars, sel, ncalls, loopVars>>

\* _execute_action, line 264: any other action.
ActUnknown ==
    /\ pc = "act"
    /\ action \notin {"plan_skill", "write_skill", "test_skill", "complete", "failed"}
    /\ Executed([success |-> FALSE, message |-> "Unknown action"], skill_code)
    /\ skill_file' = skill_file

\* A run is started on a machine of 4 GB (profile "minimal") with nothing
\* listed yet and the default SWARM_AUTO_DOWNLOAD.
Init ==
    /\ InitEnv
    /\ installed = << >>
    /\ total_ram_gb = 4
    /\ auto_download = TRUE
    /\ pc = "start"
    /\ LoopIdle

Next ==
    \/ Run
    \/ LoopTop
    \/ VoteOnAction
    \/ QuickVoteSelect
    \/ QuickVote
    \/ VoteRaises
    \/ ActComplete
    \/ ActFailed
    \/ ActPlan
    \/ PlanRaises
    \/ ActWrite
    \/ ActTest
    \/ ActUnknown

Spec == Init /\ [][Next]_vars


-----------------------------------------------------------------------------
(* SpecEvict: the uninstaller on a registry filled by pulls and selections *)

\* The models pulled in SpecEvict: the always_keep one and two others.
EvictModels == {"qwen2.5:0.5b", "tinyllama", "qwen2.5-coder:1.5b"}

\* keep_models of cleanup_unused (None stands for []).
KeepLists == { {}, {"qwen2.5:0.5b"}, {"tinyllama"}, {"tinyllama", "qwen2.5-coder:1.5b"} }

\* required_mb of free_space_for: the size_mb of a model to make room for.
RequiredValues == { MODEL_CATALOG[m].size_mb :
                      m \in {"qwen2.5:0.5b", "qwen2.5-coder:1.5b", "phi3:mini"} }

\* Free space (MB) shutil.disk_usage may report at the entry of
\* free_space_for: next to nothing, exactly 397 + 500, and plenty.
FreeValues == {100, 897, 3000}

\* What `ollama list` shows before the swarm downloaded anything: nothing,
\* or a model the user installed.
PreExisting == { << >>, << "phi3:mini" >>, << "qwen2.5:0.5b" >> }

InitEvict ==
    /\ InitEnv
    /\ installed \in PreExisting
    /\ total_ram_gb = 8
    /\ auto_download = TRUE
    /\ pc = "idle"
    /\ LoopIdle

\* ModelDownloader.ensure_available(model): a pull that succeeds is listed
\* and marked downloaded_by_swarm.
EnsureAvailable ==
    /\ pc = "idle"
    /\ \E model \in EvictModels, pull_ok \in BOOLEAN :
         LET e == ensure_available(model, auto_download, installed, pull_ok)
         IN  /\ e.downloaded
             /\ installed' = << ListedName(model) >> \o installed
             /\ downloaded_by_swarm' = mark_downloaded_by_swarm(downloaded_by_swarm, model)
    /\ UNCHANGED <<hwVars, obsVars, usage, sel, ncalls, pc, loopVars, ret>>

\* ModelRegistry.record_usage(model), as the selector calls it.
RecordUsage ==
    /\ pc = "idle"
    /\ \E model \in EvictModels :
         /\ usage[model] < MaxUsage
         /\ usage' = record_usage(usage, model)
    /\ UNCHANGED <<installed, hwVars, obsVars, downloaded_by_swarm, sel, ncalls, pc,
                   loopVars, ret>>

\* ModelUninstaller.cleanup_unused(keep_models).  rm_ok: the models whose
\* `ollama rm` succeeds, were it invoked; those leave the listing (gone),
\* while downloaded_by_swarm is what the code makes of it.
CleanupUnused ==
    /\ pc = "idle"
    /\ \E keep_models \in KeepLists :
         \E rm_ok \in SUBSET Range(downloaded_by_swarm) :
           LET r == cleanup_unused(keep_models, downloaded_by_swarm, usage, rm_ok)
               gone == Succeeded(r.attempted, rm_ok)
           IN  /\ ev' = [called |-> TRUE, op |-> "cleanup_unused",
                         keep_models |-> keep_models, required_mb |-> 0, free |-> 0,
                         swarm |-> downloaded_by_swarm, installed |-> installed,
                         usage |-> usage, attempted |-> r.attempted, gone |-> gone,
                         removed |-> r.removed, count |-> r.count, ok |-> FALSE,
                         free_after |-> 0]
               /\ downloaded_by_swarm' = r.downloaded_by_swarm
               /\ installed' = UnlistAll(installed, gone)
    /\ pc' = "evicted"
    /\ UNCHANGED <<hwVars, fileVars, parsed, vote, dl, usage, sel, ncalls, loopVars, ret>>

\* ModelUninstaller.free_space_for(required_mb)
FreeSpaceFor ==
    /\ pc = "idle"
    /\ \E required_mb \in RequiredValues, free \in FreeValues :
         \E rm_ok \in SUBSET Range(downloaded_by_swarm) :
           LET r == free_space_for(required_mb, free, downloaded_by_swarm, usage, rm_ok)
               gone == Succeeded(r.attempted, rm_ok)
           IN  /\ ev' = [called |-> TRUE, op |-> "free_space_for",
                         keep_models |-> {}, required_mb |-> required_mb, free |-> free,
                         swarm |-> downloaded_by_swarm, installed |-> installed,
                         usage |-> usage, attempted |-> r.attempted, gone |-> gone,
                         removed |-> r.removed, count |-> 0, ok |-> r.ok,
                         free_after |-> r.free]
               /\ downloaded_by_swarm' = r.downloaded_by_swarm
               /\ installed' = UnlistAll(installed, gone)
    /\ pc' = "evicted"
    /\ UNCHANGED <<hwVars, fileVars, parsed, vote, dl, usage, sel, ncalls, loopVars, ret>>

\* The caller has the result of the uninstaller; the next call can follow.
EvictReturn ==
    /\ pc = "evicted"
    /\ pc' = "idle"
    /\ ev' = NoEviction
    /\ UNCHANGED <<installed, hwVars, fileVars, parsed, vote, dl, regVars, sel, ncalls, loopVars, ret>>

NextEvict ==
    \/ EnsureAvailable
    \/ RecordUsage
    \/ CleanupUnused
    \/ FreeSpaceFor
    \/ EvictReturn

SpecEvict == InitEvict /\ [][NextEvict]_vars

-----------------------------------------------------------------------------
(* The orchestration loop: C1 - C6 (checked under Spec) *)

\* Steps still possible: at most four per remaining iteration.
Measure ==
    CASE pc = "start" -> 4 * MAX_ITERATIONS + 2
      [] pc = "loop"  -> 4 * (MAX_ITERATIONS - iteration) + 1
      [] pc = "vote"  -> 4 * (MAX_ITERATIONS - iteration) + 4
      [] pc = "quick" -> 4 * (MAX_ITERATIONS - iteration) + 3
      [] pc = "act"   -> 4 * (MAX_ITERATIONS - iteration) + 2
      [] OTHER        -> 0

\* C1: the loop terminates after at most 12 iterations whatever is voted and
\* whatever the actions return: the iteration counter never passes
\* MAX_ITERATIONS and every step of a run strictly lowers a measure that is
\* never negative, so no run takes more than 4 * 12 + 2 steps.
C1_TerminatesWithin12 ==
    [][ /\ iteration' <= MAX_ITERATIONS
        /\ Measure' >= 0
        /\ Measure' < Measure ]_vars

\* C1 witness: the 12th iteration of a run whose voter answered plan_skill
\* after a failed test, about to be executed.
C1_Witness ==
    /\ pc = "act"
    /\ iteration = MAX_ITERATIONS
    /\ voted = "plan_skill"
    /\ history_last.action = "test_skill"
    /\ ~history_last.result.success

\* C2: iteration 1 executes plan_skill and iteration 2 executes write_skill
\* if the artifact is non-empty and plan_skill otherwise, whatever was voted;
\* no run returns in its first two iterations.
C2_FirstTwoForced ==
    /\ (pc = "act" /\ iteration = 1) => action = "plan_skill"
    /\ (pc = "act" /\ iteration = 2) =>
          action = (IF skill_code # "" THEN "write_skill" ELSE "plan_skill")
    /\ (pc = "loop" /\ iteration = 1) => history_last.action = "plan_skill"
    /\ (pc = "loop" /\ iteration = 2) =>
          /\ history_last.action \in {"plan_skill", "write_skill"}
          /\ history_last.action = "write_skill" => skill_code # ""
    /\ pc = "done" => iteration >= 3

\* C2 witness: in iteration 2 the vote was complete and write_skill is what
\* is executed.
C2_Witness ==
    /\ pc = "act"
    /\ iteration = 2
    /\ voted = "complete"
    /\ action = "write_skill"

\* C3: from iteration 3 on the executed action is test_skill after a
\* successful write_skill, else write_skill after a plan_skill that left a
\* non-empty artifact, else the voted action itself.
C3_LaterIterations ==
    (pc = "act" /\ iteration >= 3) =>
        action = (IF history_last.action = "write_skill" /\ history_last.result.success
                  THEN "test_skill"
                  ELSE IF history_last.action = "plan_skill" /\ skill_code # ""
                  THEN "write_skill"
                  ELSE voted)

\* C3 witness: after a write_skill that failed, the vote decides.
C3_Witness ==
    /\ pc = "act"
    /\ iteration >= 3
    /\ history_last.action = "write_skill"
    /\ ~history_last.result.success
    /\ voted = "analyze_results"
    /\ action = voted

\* C4: once a test_skill reported success the run has returned COMPLETE with
\* the current artifact, in the iteration of the test: no vote and no action
\* follows it.
C4_TestSuccessCompletes ==
    (history_last.action = "test_skill" /\ history_last.result.success) =>
        /\ pc = "done"
        /\ ret.success
        /\ ret.result = skill_code
        /\ ret.iterations = iteration
        /\ history_len = iteration

\* C4 witness: a run that returned on a passed test.
C4_Witness ==
    /\ pc = "done"
    /\ history_last.action = "test_skill"
    /\ history_last.result.success
    /\ ret.success

\* C5: a run that comes back to the loop condition after 12 iterations
\* returns failure with "Max iterations reached" and iterations = 12, and
\* that reason is never returned after fewer than 12 iterations.
C5_MaxIterations ==
    [][ /\ (pc = "loop" /\ iteration = 12) =>
              /\ pc' = "done"
              /\ ~ret'.success
              /\ ret'.error = "Max iterations reached"
              /\ ret'.iterations = 12
        /\ (pc' = "done" /\ ret'.error = "Max iterations reached") =>
              /\ pc = "loop"
              /\ iteration = 12
              /\ history_len = 12
              /\ ret'.iterations = 12 ]_vars

\* C5 witness: a run that returned the exhausted-iterations failure.
C5_Witness ==
    /\ pc = "done"
    /\ ret.error = "Max iterations reached"
    /\ ret.iterations = 12

\* C6: when the action selected for an iteration is complete or failed, the
\* run returns in that iteration with success true or false respectively;
\* nothing is executed and the history is not appended to.
C6_TerminalActions ==
    [][ (pc = "act" /\ action \in {"complete", "failed"}) =>
            /\ pc' = "done"
            /\ ret'.success = (action = "complete")
            /\ ret'.iterations = iteration
            /\ UNCHANGED <<history_len, history_last, tested_ok, skill_code, skill_file>>
            /\ history_len = iteration - 1 ]_vars

\* C6 witness: a run that returned on a selected failed.
C6_Witness ==
    /\ pc = "done"
    /\ action = "failed"
    /\ ~ret.success
    /\ ret.iterations = iteration
    /\ history_len = iteration - 1


-----------------------------------------------------------------------------
(* The selector: C7 - C10 (C8 under Spec, the others under SpecSelect) *)

\* The requirement of the last call: the tier window after the complexity
\* upgrade and the hardware cap, and the required capabilities.
MeetsRequirement(m) ==
    /\ m \in CatalogIds
    /\ MODEL_CATALOG[m].tier >= EffectiveMinTier(sel.task_type, sel.complexity)
    /\ MODEL_CATALOG[m].tier <= EffectiveMaxTier(total_ram_gb)
    /\ ReqOf(sel.task_type).min_capabilities \subseteq MODEL_CATALOG[m].capabilities

\* The resident candidates of the last call.
ResidentCandidates ==
    { m \in CatalogIds : MeetsRequirement(m) /\ m \in Range(sel.installed) }

\* m comes before n in MODEL_CATALOG.
CatalogBefore(m, n) ==
    \E i, j \in 1..Len(CatalogOrder) :
        CatalogOrder[i] = m /\ CatalogOrder[j] = n /\ i < j

\* m is the smallest of S by size_mb, the earlier catalog entry on a tie.
SmallestOf(m, S) ==
    /\ m \in S
    /\ \A n \in S \ {m} :
          \/ MODEL_CATALOG[m].size_mb < MODEL_CATALOG[n].size_mb
          \/ /\ MODEL_CATALOG[m].size_mb = MODEL_CATALOG[n].size_mb
             /\ CatalogBefore(m, n)

C8_EmptyWindowNotFound ==
    (/\ sel.called
     /\ EffectiveMinTier(sel.task_type, sel.complexity) > EffectiveMaxTier(total_ram_gb)) =>
        /\ sel.ret = NotFound
        /\ pc = "done"
        /\ ~ret.success
        /\ ret.error = "No suitable model available"
        /\ ret.iterations = 0

\* C9 as claimed: on no return path does select return a resident candidate
\* whose ram_mb exceeds 70% of the available memory.
C9_Original ==
    sel.called =>
        ~ /\ sel.ret \in ResidentCandidates
          /\ 10 * MODEL_CATALOG[sel.ret].ram_mb > 7 * sel.available

\* C9 amended: through the resident pass and the acquisition pass select
\* never returns a backend whose ram_mb exceeds 70% of the available memory
\* (the fallback applies no memory check).
C9_FitsOnPasses ==
    (sel.called /\ sel.path \in {"resident", "acquired"}) =>
        ~ (10 * MODEL_CATALOG[sel.ret].ram_mb > 7 * sel.available)

\* C9 witness: the resident pass returned a backend while another resident
\* candidate exceeds 70% of the available memory.
C9_Witness ==
    /\ sel.called
    /\ sel.path = "resident"
    /\ \E m \in ResidentCandidates :
          10 * MODEL_CATALOG[m].ram_mb > 7 * sel.available

-----------------------------------------------------------------------------
(* Usage accounting and offline runs: C11 (SpecSelect), C12 (Spec) *)

\* C11: a select that returns through the resident pass or the acquisition
\* pass raises the usage counter of the returned backend by exactly 1 and
\* leaves every other counter as it was; a select that returns through the
\* fallback leaves every counter as it was.
C11_UsageOfReturned ==
    sel.called =>
        usage = IF sel.path \in {"resident", "acquired"}
                THEN [sel.usage EXCEPT ![sel.ret] = @ + 1]
                ELSE sel.usage

\* C11 witness: the acquisition pass returned a backend that had been
\* selected before, and its counter went from 1 to 2.
C11_Witness ==
    /\ sel.called
    /\ sel.path = "acquired"
    /\ sel.usage[sel.ret] = 1
    /\ usage[sel.ret] = 2

\* C12 as claimed: in a run started with offline = true no pull is invoked,
\* so none succeeds: while the coder selection of an offline run is the last
\* call of select_for_task, nothing is listed and nothing is marked
\* downloaded_by_swarm that was not there when the run began.
C12_OfflineNeverPulls ==
    (sel.called /\ sel.task_type = "code_generation" /\ sel.offline) =>
        /\ downloaded_by_swarm = << >>
        /\ installed = sel.installed


-----------------------------------------------------------------------------
(* The uninstaller: C13 - C17 (checked under SpecEvict) *)

\* The catalog sizes of the models of s, summed.
RECURSIVE SumSizes(_)
SumSizes(s) ==
    IF s = << >> THEN 0 ELSE MODEL_CATALOG[Head(s)].size_mb + SumSizes(Tail(s))

\* s without the members of t, in the order of s.
RECURSIVE Without(_, _)
Without(s, t) ==
    IF s = << >> THEN << >>
    ELSE IF Head(s) \in Range(t) THEN Without(Tail(s), t)
    ELSE << Head(s) >> \o Without(Tail(s), t)

\* C13 as claimed: no call of cleanup_unused or free_space_for removes a
\* backend whose descriptor has always_keep = true.
C13_AlwaysKeepNeverRemoved ==
    ev.called => \A m \in Range(ev.gone) : ~MODEL_CATALOG[m].always_keep

\* C14: cleanup_unused(keep_models) invokes the removal of exactly the
\* swarm-downloaded backends that are not in keep_models, are not
\* always_keep and have usage < 3, each once; a backend is dropped from
\* downloaded_by_swarm exactly when its removal succeeded; the count
\* returned is the number of backends dropped.
C14_CleanupEligibility ==
    (ev.called /\ ev.op = "cleanup_unused") =>
        /\ Range(ev.attempted) =
              { m \in Range(ev.swarm) :
                  /\ m \notin ev.keep_models
                  /\ ~MODEL_CATALOG[m].always_keep
                  /\ ev.usage[m] < 3 }
        /\ Len(ev.attempted) = Cardinality(Range(ev.attempted))
        /\ ev.removed = ev.gone
        /\ downloaded_by_swarm = Without(ev.swarm, ev.gone)
        /\ ev.count = Len(ev.swarm) - Len(downloaded_by_swarm)
        /\ ev.count = Len(ev.gone)

\* C14 witness: a cleanup over three swarm-downloaded backends that skipped
\* an always_keep backend and a backend used three times, and dropped the
\* third.
C14_Witness ==
    /\ ev.called
    /\ ev.op = "cleanup_unused"
    /\ Len(ev.swarm) = 3
    /\ ev.count = 1
    /\ Len(ev.attempted) = 1
    /\ \E m \in Range(ev.swarm) :
          /\ ev.usage[m] >= 3
          /\ ~MODEL_CATALOG[m].always_keep
          /\ m \notin ev.keep_models
    /\ \E m \in Range(ev.swarm) :
          MODEL_CATALOG[m].always_keep /\ m \notin ev.keep_models

\* C15 as claimed: free_space_for called with an empty downloaded_by_swarm
\* returns false and removes nothing.
C15_Original ==
    (ev.called /\ ev.op = "free_space_for" /\ ev.swarm = << >>) =>
        /\ ~ev.ok
        /\ ev.attempted = << >>
        /\ downloaded_by_swarm = << >>
        /\ installed = ev.installed

\* C15 amended: free_space_for called with an empty downloaded_by_swarm
\* removes nothing and returns false when the free space is below
\* required_mb + 500, true when it is at or above it.
C15_EmptySetFalseWhenShort ==
    (ev.called /\ ev.op = "free_space_for" /\ ev.swarm = << >>) =>
        /\ ev.ok = (ev.free >= ev.required_mb + 500)
        /\ ev.attempted = << >>
        /\ downloaded_by_swarm = << >>
        /\ installed = ev.installed

\* C15 witness: free_space_for returned false on an empty set, with models
\* listed that the swarm did not download.
C15_Witness ==
    /\ ev.called
    /\ ev.op = "free_space_for"
    /\ ev.swarm = << >>
    /\ ev.free < ev.required_mb + 500
    /\ ~ev.ok

\* C16: when free_space_for returns true the free space at return is at
\* least required_mb + 500; and when the sizes of all swarm-downloaded
\* backends would lift the free space to that level and no removal it
\* invoked failed, it returns true.
C16_FreeSpacePostcondition ==
    (ev.called /\ ev.op = "free_space_for") =>
        /\ ev.free_after = ev.free + SumSizes(ev.gone)
        /\ ev.ok => ev.free_after >= ev.required_mb + 500
        /\ (/\ ev.free + SumSizes(ev.swarm) >= ev.required_mb + 500
            /\ ev.gone = ev.attempted) => ev.ok

\* C16 witness: free_space_for returned true after two removals.
C16_Witness ==
    /\ ev.called
    /\ ev.op = "free_space_for"
    /\ ev.ok
    /\ Len(ev.gone) = 2
    /\ ev.free < ev.required_mb + 500

\* C17: a call of free_space_for invokes at most |downloaded_by_swarm|
\* removals: every removal but the last shrank downloaded_by_swarm by the
\* backend removed, and a removal that failed ended the call with false.
C17_BoundedEvictions ==
    (ev.called /\ ev.op = "free_space_for") =>
        /\ Len(ev.attempted) <= Len(ev.swarm)
        /\ Len(ev.attempted) = Cardinality(Range(ev.attempted))
        /\ Len(downloaded_by_swarm) = Len(ev.swarm) - Len(ev.removed)
        /\ \/ ev.removed = ev.attempted
           \/ /\ ~ev.ok
              /\ ev.attempted = Append(ev.removed, ev.attempted[Len(ev.attempted)])
        /\ (~ev.ok /\ ev.removed = ev.attempted) => downloaded_by_swarm = << >>

\* C17 witness: free_space_for removed all three swarm-downloaded backends
\* and returned false with none left.
C17_Witness ==
    /\ ev.called
    /\ ev.op = "free_space_for"
    /\ Len(ev.swarm) = 3
    /\ Len(ev.attempted) = 3
    /\ ~ev.ok
    /\ downloaded_by_swarm = << >>


-----------------------------------------------------------------------------
(* voter.py.  A response text is the sequence of its characters. *)

\* _parse_action, lines 111-120: the vocabulary in its order.
actions ==
    << "plan_skill", "write_skill", "test_skill", "analyze_results",
       "complete", "failed", "direct_answer", "retry_plan" >>

\* The characters of an action's name.
Chars(a) ==
    CASE a = "plan_skill" -> << "p", "l", "a", "n", "_", "s", "k", "i", "l", "l" >>
      [] a = "write_skill" -> << "w", "r", "i", "t", "e", "_", "s", "k", "i", "l", "l" >>
      [] a = "test_skill" -> << "t", "e", "s", "t", "_", "s", "k", "i", "l", "l" >>
      [] a = "analyze_results" -> << "a", "n", "a", "l", "y", "z", "e", "_", "r", "e", "s", "u", "l", "t", "s" >>
      [] a = "complete" -> << "c", "o", "m", "p", "l", "e", "t", "e" >>
      [] a = "failed" -> << "f", "a", "i", "l", "e", "d" >>
      [] a = "direct_answer" -> << "d", "i", "r", "e", "c", "t", "_", "a", "n", "s", "w", "e", "r" >>
      [] a = "retry_plan" -> << "r", "e", "t", "r", "y", "_", "p", "l", "a", "n" >>

\* The letters, in upper and in lower case.
UpperCase == 
    << "A", "B", "C", "D", "E", "F", "G", "H", "I", "J", "K", "L", "M" >> \o
    << "N", "O", "P", "Q", "R", "S", "T", "U", "V", "W", "X", "Y", "Z" >>
LowerCase == 
    << "a", "b", "c", "d", "e", "f", "g", "h", "i", "j", "k", "l", "m" >> \o
    << "n", "o", "p", "q", "r", "s", "t", "u", "v", "w", "x", "y", "z" >>

\* str.lower on one character.
LowerChar(c) ==
    IF \E i \in 1..Len(UpperCase) : UpperCase[i] = c
    THEN LowerCase[CHOOSE i \in 1..Len(UpperCase) : UpperCase[i] = c]
    ELSE c

\* Mutant of lower: the text as it is.
LowerAsIs(text) == text

lower(text) == [i \in 1..Len(text) |-> LowerChar(text[i])]

\* str.strip: the text without its leading and trailing blanks.
RECURSIVE strip(_)
strip(text) ==
    IF text = << >> THEN text
    ELSE IF Head(text) = " " THEN strip(Tail(text))
    ELSE IF text[Len(text)] = " " THEN strip(SubSeq(text, 1, Len(text) - 1))
    ELSE text

\* action.replace("_", " ")
replace_underscores(form) ==
    [i \in 1..Len(form) |-> IF form[i] = "_" THEN " " ELSE form[i]]

\* `form in text`: form is a substring of text.
IsSubstring(form, text) ==
    \E k \in 0..(Len(text) - Len(form)) : SubSeq(text, k + 1, k + Len(form)) = form

\* The first action of the list, from position i on, that the text mentions;
\* _parse_action's default when there is none.
RECURSIVE FirstMentioned(_, _)
FirstMentioned(text, i) ==
    IF i > Len(actions) THEN "plan_skill"
    ELSE IF \/ IsSubstring(replace_underscores(Chars(actions[i])), text)
            \/ IsSubstring(Chars(actions[i]), text)
    THEN actions[i]
    ELSE FirstMentioned(text, i + 1)

\* SwarmVoter._parse_action
parse_action(response) == FirstMentioned(strip(lower(response)), 1)

\* Mutant of CounterOf: an action is counted once, however often it occurs.
RECURSIVE CounterOfDistinct(_, _)
CounterOfDistinct(acts, counts) ==
    IF acts = << >> THEN counts
    ELSE LET a == Head(acts)
             seen == \E i \in 1..Len(counts) : counts[i].action = a
         IN CounterOfDistinct(Tail(acts),
                              IF seen THEN counts
                              ELSE Append(counts, [action |-> a, n |-> 1]))

\* Counter(actions): the distinct actions in the order of their first
\* occurrence, each with its number of occurrences.
RECURSIVE CounterOf(_, _)
CounterOf(acts, counts) ==
    IF acts = << >> THEN counts
    ELSE LET a == Head(acts)
             seen == \E i \in 1..Len(counts) : counts[i].action = a
         IN CounterOf(Tail(acts),
                      IF seen
                      THEN [i \in 1..Len(counts) |->
                              IF counts[i].action = a
                              THEN [counts[i] EXCEPT !.n = @ + 1]
                              ELSE counts[i]]
                      ELSE Append(counts, [action |-> a, n |-> 1]))

\* Among the entries of the highest count, the one whose action comes first
\* in _parse_action's list.
MostCommonByVocabulary(counts) ==
    LET top == { i \in 1..Len(counts) : \A j \in 1..Len(counts) : counts[j].n <= counts[i].n }
        pos(a) == CHOOSE k \in 1..Len(actions) : actions[k] = a
    IN counts[CHOOSE i \in top : \A j \in top : pos(counts[i].action) <= pos(counts[j].action)]

\* Counter.most_common(1)[0]: the first entry, in insertion order, of the
\* highest count.
most_common(counts) ==
    counts[CHOOSE i \in 1..Len(counts) :
             /\ \A j \in 1..Len(counts) : counts[j].n <= counts[i].n
             /\ \A j \in 1..(i - 1) : counts[j].n < counts[i].n]

\* SwarmVoter._tally_votes.  A confidence is a fraction
\* << numerator, denominator >>.
tally_votes(responses) ==
    LET acts == [i \in 1..Len(responses) |-> parse_action(responses[i].response)]
    IN IF acts = << >>
       THEN [action |-> "plan_skill", confidence |-> << 0, 1 >>,
             votes |-> << >>, responses |-> responses]
       ELSE LET vote_counts == CounterOf(acts, << >>)
                winner == most_common(vote_counts)
            IN [action |-> winner.action,
                confidence |-> << winner.n, Len(acts) >>,
                votes |-> vote_counts, responses |-> responses]

\* Mutant of FallbackResult: the fallback reports full confidence.
FallbackResultCertain(action_) ==
    [action |-> action_, confidence |-> << 1, 1 >>,
     votes |-> << [action |-> action_, n |-> 1] >>, responses |-> << >>]

\* vote, lines 58-65: the result built from quick_vote's action.
FallbackResult(action_) ==
    [action |-> action_, confidence |-> << 1, 2 >>,
     votes |-> << [action |-> action_, n |-> 1] >>, responses |-> << >>]


-----------------------------------------------------------------------------
(* SpecVote: calls of SwarmVoter.vote *)

\* What a backend answers: an action by its name in upper case, an action
\* in words between blanks, a third action, and a text that names no action.
Texts ==
    { << "T", "E", "S", "T", "_", "S", "K", "I", "L", "L" >>,
      << " ", "p", "l", "a", "n", " ", "s", "k", "i", "l", "l", " " >>,
      << "c", "o", "m", "p", "l", "e", "t", "e" >>,
      << "o", "k" >> }

\* voter_models = None, the default of vote.
NoVoterModels == << >>

\* The voter_models of a call: the default, or three models by name.
VoterArgs ==
    { NoVoterModels, << "qwen2.5:0.5b", "tinyllama", "qwen2.5-coder:1.5b" >> }

\* vote, lines 31-32: the voters of the call, and the listing and the
\* registry select_voters(3) leaves when it chose them.
VotersOf(voter_models, inst, swarm, pull_ok) ==
    IF voter_models = NoVoterModels
    THEN select_voters(3, FALSE, inst, swarm, total_ram_gb, pull_ok)
    ELSE [selected |-> voter_models, installed |-> inst, downloaded_by_swarm |-> swarm]

\* The orders in which calls of S can complete: some of them, each once.
Orders(S) ==
    { o \in UNION { [1..k -> S] : k \in 0..Cardinality(S) } :
        \A i, j \in DOMAIN o : i # j => o[i] # o[j] }

\* vote, lines 36-56: the responses list as_completed can leave: the calls
\* that returned before the bound of timeout + 10, in the order of their
\* completion; a call that raised, or that is still running when the bound
\* elapses (TimeoutError, caught on line 55), leaves no entry.
ResponseLists(voter_models) ==
    UNION { { [i \in 1..Len(o) |-> [model |-> voter_models[o[i]], response |-> t[i]]] :
                t \in [1..Len(o) -> Texts] } :
            o \in Orders(1..Len(voter_models)) }

InitVote ==
    /\ InitEnv
    /\ installed \in { << >>, << "qwen2.5:0.5b" >>,
                       << "tinyllama:latest", "qwen2.5-coder:1.5b" >> }
    /\ total_ram_gb = 8
    /\ pc = "idle"
    /\ LoopIdle

\* vote(prompt, voter_models) when a voter responded: the tally.
VoteTally ==
    /\ pc = "idle"
    /\ \E voter_models \in VoterArgs :
         \E s \in { VotersOf(voter_models, installed, downloaded_by_swarm, pull_ok) :
                      pull_ok \in VoterPulls(installed) } :
           /\ \E responses \in ResponseLists(s.selected) \ { << >> } :
                LET r == tally_votes(responses)
                IN vote' = [called |-> TRUE, voters |-> s.selected,
                            responses |-> r.responses, raised |-> FALSE,
                            action |-> r.action, confidence |-> r.confidence,
                            votes |-> r.votes, chats |-> 0, router |-> "",
                            reply |-> << >>, blocked |-> FALSE]
           /\ installed' = s.installed
           /\ downloaded_by_swarm' = s.downloaded_by_swarm
    /\ pc' = "voted"
    /\ UNCHANGED <<hwVars, fileVars, parsed, ev, dl, usage, sel, ncalls, loopVars, ret>>

\* vote(prompt, voter_models) when no voter responded and quick_vote's
\* backend answers: select_router() then one chat, whose reply is parsed.
VoteQuick ==
    /\ pc = "idle"
    /\ ncalls < MaxCalls
    /\ \E voter_models \in VoterArgs :
         \E s \in { VotersOf(voter_models, installed, downloaded_by_swarm, pull_ok) :
                      pull_ok \in VoterPulls(installed) } :
           /\ \E available \in AvailValues :
                SelectCallFrom(s.installed, s.downloaded_by_swarm, "routing", "simple",
                               FALSE, available)
           /\ \E reply \in Texts :
                LET r == FallbackResult(parse_action(reply))
                IN vote' = [called |-> TRUE, voters |-> s.selected,
                            responses |-> r.responses, raised |-> FALSE,
                            action |-> r.action, confidence |-> r.confidence,
                            votes |-> r.votes, chats |-> 1, router |-> sel'.ret,
                            reply |-> reply, blocked |-> FALSE]
    /\ pc' = "voted"
    /\ UNCHANGED <<hwVars, fileVars, parsed, ev, dl, loopVars, ret>>

\* vote(prompt, voter_models) when no voter responded and quick_vote's
\* backend call raises: the exception leaves vote.
VoteQuickRaises ==
    /\ pc = "idle"
    /\ ncalls < MaxCalls
    /\ \E voter_models \in VoterArgs :
         \E s \in { VotersOf(voter_models, installed, downloaded_by_swarm, pull_ok) :
                      pull_ok \in VoterPulls(installed) } :
           /\ \E available \in AvailValues :
                SelectCallFrom(s.installed, s.downloaded_by_swarm, "routing", "simple",
                               FALSE, available)
           /\ vote' = [NoVote EXCEPT !.called = TRUE, !.voters = s.selected,
                                     !.raised = TRUE, !.chats = 1,
                                     !.router = sel'.ret]
    /\ pc' = "voted"
    /\ UNCHANGED <<hwVars, fileVars, parsed, ev, dl, loopVars, ret>>

\* vote(prompt, voter_models) when a call of a voter never completes:
\* _call_voter passes no timeout to ollama.chat.  as_completed raises
\* TimeoutError at the bound, with the responses collected so far, and the
\* exception leaves the `with` block through ThreadPoolExecutor.__exit__,
\* i.e. shutdown(wait=True), which joins the thread of that call: line 55 is
\* not reached and vote does not return.
VoteBlocked ==
    /\ pc = "idle"
    /\ \E voter_models \in VoterArgs :
         \E s \in { VotersOf(voter_models, installed, downloaded_by_swarm, pull_ok) :
                      pull_ok \in VoterPulls(installed) } :
           /\ \E responses \in ResponseLists(s.selected) :
                /\ Len(responses) < Len(s.selected)
                /\ vote' = [NoVote EXCEPT !.called = TRUE, !.voters = s.selected,
                                          !.responses = responses,
                                          !.blocked = TRUE]
           /\ installed' = s.installed
           /\ downloaded_by_swarm' = s.downloaded_by_swarm
    /\ pc' = "blocked"
    /\ UNCHANGED <<hwVars, fileVars, parsed, ev, dl, usage, sel, ncalls, loopVars, ret>>

\* The caller has the result, or the exception.
VoteReturn ==
    /\ pc = "voted"
    /\ pc' = "idle"
    /\ vote' = NoVote
    /\ sel' = NoCall
    /\ UNCHANGED <<installed, hwVars, fileVars, parsed, ev, dl, regVars, ncalls, loopVars, ret>>

NextVote ==
    \/ VoteTally
    \/ VoteQuick
    \/ VoteQuickRaises
    \/ VoteBlocked
    \/ VoteReturn

SpecVote == InitVote /\ [][NextVote]_vars

\* SpecVote with progress of the interpreter: a call of vote that can return
\* does return.  When the caller calls vote is left open; where vote is
\* blocked no step is possible at all.
SpecVoteFair == InitVote /\ [][NextVote]_vars /\ WF_vars(VoteReturn)


-----------------------------------------------------------------------------
(* The vote: C18 - C20 (checked under SpecVote) *)

\* The counts of a histogram, summed.
RECURSIVE SumCounts(_)
SumCounts(counts) ==
    IF counts = << >> THEN 0 ELSE Head(counts).n + SumCounts(Tail(counts))

\* The count of the chosen action in the histogram of a returned vote.
ChosenCount ==
    LET i == CHOOSE i \in 1..Len(vote.votes) : vote.votes[i].action = vote.action
    IN vote.votes[i].n

\* The histogram of a returned vote sums to its number of responses, and its
\* confidence is the chosen action's count over that sum.
SumsToResponses ==
    /\ \E i \in 1..Len(vote.votes) : vote.votes[i].action = vote.action
    /\ SumCounts(vote.votes) = Len(vote.responses)
    /\ vote.confidence[1] * SumCounts(vote.votes) = ChosenCount * vote.confidence[2]

\* C18 as claimed: every result vote returns with a non-empty histogram has
\* counts that sum to the number of collected responses and a confidence of
\* the chosen action's count over that sum.
C18_Original ==
    (vote.called /\ ~vote.raised /\ vote.votes # << >>) => SumsToResponses

\* C18 amended: every result vote returns from the tally (at least one
\* response collected) has counts that sum to the number of collected
\* responses and a confidence of the chosen action's count over that sum;
\* the fallback result has one count of 1 and no response.
C18_TallySumsToResponses ==
    (vote.called /\ ~vote.raised /\ vote.votes # << >>) =>
        IF vote.responses # << >>
        THEN SumsToResponses
        ELSE SumCounts(vote.votes) = 1

\* C18 witness: three voters answered test_skill, test_skill and plan_skill;
\* test_skill won with confidence 2/3.
C18_Witness ==
    /\ vote.called
    /\ Len(vote.responses) = 3
    /\ vote.action = "test_skill"
    /\ vote.confidence = << 2, 3 >>
    /\ vote.votes = << [action |-> "test_skill", n |-> 2],
                       [action |-> "plan_skill", n |-> 1] >>

\* C19 as claimed: the chosen action has the highest count of the histogram,
\* and among the actions of the highest count it is the first of the
\* vocabulary order, whatever the order of arrival of the responses.
C19_TieByVocabularyOrder ==
    (vote.called /\ ~vote.raised /\ vote.responses # << >>) =>
        vote.action = MostCommonByVocabulary(vote.votes).action

-----------------------------------------------------------------------------
(* The voter pool under failures: C21, C22 *)

\* C21 as claimed (SpecVoteFair): a call of vote in which some voter call
\* never completes still returns to its caller.
C21_NeverBlocksOnSlowVoter ==
    (vote.called /\ vote.blocked) ~> (pc = "voted")


\* C22 as claimed (SpecVote): when a voter call raised or timed out, it
\* left no entry in the responses, and vote returns a result whose histogram
\* counts the responses collected, one entry of a voter each.
C22_FailedCallsDropped ==
    (vote.called /\ Len(vote.responses) < Len(vote.voters)) =>
        /\ pc = "voted"
        /\ ~vote.raised
        /\ \A i \in 1..Len(vote.responses) :
              vote.responses[i].model \in Range(vote.voters)
        /\ vote.responses # << >> =>
              SumCounts(vote.votes) = Len(vote.responses)


-----------------------------------------------------------------------------
(* SpecEnsure: calls of ModelDownloader.ensure_available *)

\* The models ensure_available is called with: the catalog, and a name that
\* is not in it.
EnsureModels == CatalogIds \cup {"llama3:8b"}

\* The auto_download argument: None (the default), True or False.
AutoArgs == {"None", "True", "False"}

InitEnsure ==
    /\ InitEnv
    /\ total_ram_gb = 8
    /\ pc = "idle"
    /\ LoopIdle

\* ensure_available(model, auto_download).  pull_ok: the outcome of
\* `ollama pull`, were it invoked; a pull that succeeded lists the model.
EnsureCall ==
    /\ pc = "idle"
    /\ \E model \in EnsureModels, arg \in AutoArgs, pull_ok \in BOOLEAN :
         LET auto == IF arg = "None" THEN auto_download ELSE arg = "True"
             e == ensure_available(model, auto, installed, pull_ok)
         IN  /\ dl' = [called |-> TRUE, model |-> model, auto |-> auto,
                       installed |-> installed, swarm |-> downloaded_by_swarm,
                       usage |-> usage, pulls |-> IF e.pulled THEN 1 ELSE 0,
                       pull_ok |-> e.pulled /\ pull_ok, ret |-> e.ok]
             /\ installed' = IF e.downloaded
                             THEN << ListedName(model) >> \o installed
                             ELSE installed
             /\ downloaded_by_swarm' = IF e.downloaded
                                       THEN mark_downloaded_by_swarm(downloaded_by_swarm, model)
                                       ELSE downloaded_by_swarm
    /\ pc' = "ensured"
    /\ UNCHANGED <<hwVars, fileVars, parsed, ev, vote, usage, sel, ncalls, loopVars, ret>>

\* The caller has the result.
EnsureReturn ==
    /\ pc = "ensured"
    /\ pc' = "idle"
    /\ dl' = NoEnsure
    /\ UNCHANGED <<installed, hwVars, fileVars, parsed, ev, vote, regVars, sel, ncalls, loopVars, ret>>

NextEnsure ==
    \/ EnsureCall
    \/ EnsureReturn

SpecEnsure == InitEnsure /\ [][NextEnsure]_vars

-----------------------------------------------------------------------------
(* The acquirer and the registry: C23, C24 *)

\* C23 (SpecEnsure): a call of ensure_available invokes `ollama pull` at
\* most once, and only when the model is not listed and auto_download is
\* true; when that pull succeeded the call returns true and
\* downloaded_by_swarm has gained the model; in every other case the
\* registry record is as it was.
C23_EnsureAvailableEffect ==
    dl.called =>
        /\ dl.pulls \in {0, 1}
        /\ dl.pulls = 1 => (dl.model \notin Range(dl.installed) /\ dl.auto)
        /\ IF dl.pulls = 1 /\ dl.pull_ok
           THEN /\ dl.ret
                /\ Range(downloaded_by_swarm) = Range(dl.swarm) \cup {dl.model}
                /\ SubSeq(downloaded_by_swarm, 1, Len(dl.swarm)) = dl.swarm
                /\ Len(downloaded_by_swarm) = Cardinality(Range(downloaded_by_swarm))
           ELSE downloaded_by_swarm = dl.swarm
        /\ usage = dl.usage

\* C23 witness: a pull that succeeded, after another model was downloaded.
C23_Witness ==
    /\ dl.called
    /\ dl.pulls = 1
    /\ dl.ret
    /\ Len(dl.swarm) = 1
    /\ Len(downloaded_by_swarm) = 2


\* C24 (SpecEvict): no step of the registry, the acquirer or the evictor
\* lowers a usage counter, and no counter is negative.
C24_UsageNeverDecreases ==
    [][\A m \in CatalogIds : usage[m] >= 0 /\ usage'[m] >= usage[m]]_vars

\* C24 witness: a model that had been used was removed by the evictor, and
\* its counter is what it was.
C24_Witness ==
    /\ ev.called
    /\ \E m \in Range(ev.gone) : ev.usage[m] > 0 /\ usage[m] = ev.usage[m]


-----------------------------------------------------------------------------
(* Faults and the tier-2 coder: C25 (Spec), C26 (SpecSelect) *)

\* C25 as claimed: no failure of a backend call or of a subprocess leaves
\* run as an exception; a run ends with a result record only.
C25_NoUnhandledFault ==
    pc # "crashed"


\* C26 as claimed: a code_generation request at min_tier 1, under a tier cap
\* of 2, with qwen2.5-coder:3b the only model listed, returns
\* qwen2.5-coder:3b.
C26_Tier2CoderReturned ==
    (/\ sel.called
     /\ sel.task_type = "code_generation"
     /\ EffectiveMinTier(sel.task_type, sel.complexity) = 1
     /\ EffectiveMaxTier(total_ram_gb) = 2
     /\ sel.installed = << "qwen2.5-coder:3b" >>) =>
        sel.ret = "qwen2.5-coder:3b"


-----------------------------------------------------------------------------
(* SpecShared: two processes on one registry file (registry.py) *)

\* Mutant of save: the write keeps what the file holds beside the record
\* written: the higher counter of each model, and the models of both lists.
SaveMerging(file, registry) ==
    [downloaded_by_swarm |->
         registry.downloaded_by_swarm \o
             SelectSeq(file.downloaded_by_swarm,
                       LAMBDA m : m \notin Range(registry.downloaded_by_swarm)),
     usage |-> [m \in SharedModels |->
                  IF file.usage[m] > registry.usage[m]
                  THEN file.usage[m] ELSE registry.usage[m]]]

\* ModelRegistry._save: the file after write_text(json.dumps(self._registry)),
\* whatever it held.
save(file, registry) == registry

InitShared ==
    /\ InitEnv
    /\ installed = << >>
    /\ total_ram_gb = 8
    /\ auto_download = TRUE
    /\ pc = "idle"
    /\ LoopIdle

\* What a step of a process on the registry file leaves alone.
SharedFrame ==
    UNCHANGED <<installed, hwVars, regVars, ev, vote, dl, parsed, sel, ncalls,
                pc, loopVars, ret>>

\* ModelRegistry.__init__ in a process: _load reads the file, once.
Load ==
    /\ \E p \in Procs :
         /\ ~loaded[p].started
         /\ loaded' = [loaded EXCEPT ![p].started = TRUE,
                                     ![p].registry = registry_file]
    /\ UNCHANGED registry_file
    /\ SharedFrame

\* record_usage(model) in a process: the counter of its record goes up and
\* the record is written.
SharedRecordUsage ==
    /\ \E p \in Procs, model \in SharedModels :
         /\ loaded[p].started
         /\ loaded[p].registry.usage[model] < MaxUsage
         /\ loaded' = [loaded EXCEPT ![p].registry.usage[model] = @ + 1,
                                     ![p].calls[model] = @ + 1]
         /\ registry_file' = save(registry_file, loaded'[p].registry)
    /\ SharedFrame

\* mark_downloaded_by_swarm(model) in a process, for a model its record does
\* not list: appended, and the record is written.
SharedMarkDownloaded ==
    /\ \E p \in Procs, model \in SharedModels :
         /\ loaded[p].started
         /\ model \notin Range(loaded[p].registry.downloaded_by_swarm)
         /\ loaded' = [loaded EXCEPT ![p].registry.downloaded_by_swarm =
                                         mark_downloaded_by_swarm(@, model)]
         /\ registry_file' = save(registry_file, loaded'[p].registry)
    /\ SharedFrame

\* The evictor of a process after a removal that succeeded (uninstaller.py
\* lines 36-37, 91-92): the model leaves the list and the record is written.
SharedEvict ==
    /\ \E p \in Procs, model \in SharedModels :
         /\ loaded[p].started
         /\ model \in Range(loaded[p].registry.downloaded_by_swarm)
         /\ loaded' = [loaded EXCEPT ![p].registry.downloaded_by_swarm =
                                         RemoveFirst(@, model)]
         /\ registry_file' = save(registry_file, loaded'[p].registry)
    /\ SharedFrame

NextShared ==
    \/ Load
    \/ SharedRecordUsage
    \/ SharedMarkDownloaded
    \/ SharedEvict

SpecShared == InitShared /\ [][NextShared]_vars

-----------------------------------------------------------------------------
(* Concurrent runs: C27 (SpecShared) *)

\* C27: every write of the registry file replaces it with the whole
\* in-memory record of the process that writes, whatever the other process
\* had persisted; no step waits for the other process or reads the file
\* again.
C27_WritesWholeRecord ==
    [][registry_file' # registry_file =>
          \E p \in Procs : /\ loaded'[p] # loaded[p]
                           /\ registry_file' = loaded'[p].registry
                           /\ \A q \in Procs \ {p} : loaded'[q] = loaded[q]]_vars

\* C27 witness: both processes recorded a use of the same model and wrote
\* it, and the file counts fewer uses than were recorded: an update is lost.
C27_Witness ==
    \E m \in SharedModels :
        /\ loaded[1].calls[m] > 0
        /\ loaded[2].calls[m] > 0
        /\ registry_file.usage[m] < loaded[1].calls[m] + loaded[2].calls[m]


-----------------------------------------------------------------------------
(* What the evictor removes: C28, C29 (SpecEvict) *)

\* C28: every removal cleanup_unused or free_space_for invokes is of a model
\* that is in downloaded_by_swarm at that moment, so a listed model the
\* swarm did not download is still listed after the call.
C28_OnlySwarmDownloadedRemoved ==
    ev.called =>
        /\ Range(ev.attempted) \subseteq Range(ev.swarm)
        /\ Len(ev.attempted) = Cardinality(Range(ev.attempted))
        /\ \A n \in Range(ev.installed) :
              n \notin { ListedName(m) : m \in Range(ev.swarm) } =>
                  n \in Range(installed)

\* C28 witness: a model was removed while a model the swarm did not
\* download was listed.
C28_Witness ==
    /\ ev.called
    /\ ev.gone # << >>
    /\ "phi3:mini" \in Range(ev.installed)
    /\ "phi3:mini" \notin Range(ev.swarm)

-----------------------------------------------------------------------------
(* SpecParse: SwarmVoter._parse_action on response texts *)

\* Words a response text is made of, at most this many of them.
MaxWords == 3

\* Pieces of action names in lower, upper and mixed case, the two
\* separators, and two whole actions.
ParseWords ==
    { << "p", "l", "a", "n" >>,
      << "P", "L", "A", "N" >>,
      << "_" >>,
      << " " >>,
      << "s", "k", "i", "l", "l" >>,
      << "S", "k", "i", "l", "l" >>,
      << "t", "e", "s", "t" >>,
      << "c", "o", "m", "p", "l", "e", "t", "e" >>,
      << "F", "a", "i", "l", "e", "d" >> }

\* The words of ws, joined.
RECURSIVE Joined(_)
Joined(ws) == IF ws = << >> THEN << >> ELSE Head(ws) \o Joined(Tail(ws))

\* The response texts: up to MaxWords words, joined.
ParseTexts ==
    { Joined(ws) : ws \in UNION { [1..k -> ParseWords] : k \in 0..MaxWords } }

InitParse ==
    /\ InitEnv
    /\ installed = << >>
    /\ total_ram_gb = 8
    /\ auto_download = TRUE
    /\ pc = "idle"
    /\ LoopIdle

\* _parse_action(response) on some response text.
ParseAction ==
    /\ pc = "idle"
    /\ \E response \in ParseTexts :
         parsed' = [called |-> TRUE, response |-> response,
                    action |-> parse_action(response)]
    /\ pc' = "parsed"
    /\ UNCHANGED <<installed, hwVars, regVars, ev, vote, dl, fileVars, sel, ncalls,
                   loopVars, ret>>

\* The caller has the action.
ParseReturn ==
    /\ pc = "parsed"
    /\ pc' = "idle"
    /\ parsed' = NoParse
    /\ UNCHANGED <<installed, hwVars, regVars, ev, vote, dl, fileVars, sel, ncalls,
                   loopVars, ret>>

NextParse ==
    \/ ParseAction
    \/ ParseReturn

SpecParse == InitParse /\ [][NextParse]_vars

-----------------------------------------------------------------------------
(* The action parser: C30 (SpecParse) *)

\* The name of action a with sep in the place of its underscores.
FormOf(a, sep) ==
    [i \in 1..Len(Chars(a)) |-> IF Chars(a)[i] = "_" THEN sep ELSE Chars(a)[i]]

\* c and d are the same character, or the same letter in two cases.
SameIgnoringCase(c, d) ==
    \/ c = d
    \/ \E i \in 1..Len(UpperCase) :
          {c, d} = {UpperCase[i], LowerCase[i]}

\* form occurs in text, the case of the letters set aside.
OccursIgnoringCase(form, text) ==
    \E k \in 0..(Len(text) - Len(form)) :
        \A i \in 1..Len(form) : SameIgnoringCase(text[k + i], form[i])

\* The positions, in the vocabulary order, of the actions a text mentions
\* with underscores or with blanks.
Mentioned(text) ==
    { i \in 1..Len(actions) :
        \/ OccursIgnoringCase(FormOf(actions[i], "_"), text)
        \/ OccursIgnoringCase(FormOf(actions[i], " "), text) }

\* C30: _parse_action returns, for every response text, an action of the
\* vocabulary: the first of the vocabulary order that the text mentions, with
\* underscores or with blanks and in any case of the letters, and plan_skill
\* when the text mentions none.
C30_ParserTotal ==
    parsed.called =>
        /\ parsed.action \in Range(actions)
        /\ IF Mentioned(parsed.response) = {}
           THEN parsed.action = "plan_skill"
           ELSE \E i \in Mentioned(parsed.response) :
                   /\ \A j \in Mentioned(parsed.response) : i <= j
                   /\ parsed.action = actions[i]

\* C30 witness: a text that mentions failed in mixed case before complete
\* is parsed as complete, the earlier of the two in the vocabulary.
C30_Witness ==
    /\ parsed.called
    /\ Mentioned(parsed.response) = {5, 6}
    /\ parsed.response[1] = "F"
    /\ parsed.action = "complete"


-----------------------------------------------------------------------------
(* The loop's history and artifact: C31 - C35 (checked under Spec) *)

\* C31: an action other than plan_skill, write_skill, test_skill, complete
\* and failed is executed as a failure "Unknown action" that goes into the
\* history; the artifact and the written file stay as they are, nothing is
\* returned and the loop goes on with its next iteration.
C31_UnknownActionContinues ==
    [][ (pc = "act" /\ action \notin {"plan_skill", "write_skill", "test_skill",
                                       "complete", "failed"}) =>
            /\ pc' = "loop"
            /\ history_len' = history_len + 1
            /\ history_last' = [action |-> action,
                                result |-> [success |-> FALSE,
                                            message |-> "Unknown action"]]
            /\ skill_code' = skill_code
            /\ skill_file' = skill_file
            /\ iteration' = iteration
            /\ ret' = ret ]_vars

\* C31 witness: the third iteration executed a voted retry_plan and the loop
\* is about to go on.
C31_Witness ==
    /\ pc = "loop"
    /\ iteration = 3
    /\ history_len = 3
    /\ history_last.action = "retry_plan"
    /\ history_last.result = [success |-> FALSE, message |-> "Unknown action"]

\* C32: from the vote of iteration i to the execution of its action the
\* history has i - 1 entries, and between two iterations it has as many
\* entries as iterations were run; so a history of 0, of 1 and of 2 or more
\* entries at the vote means iteration 1, iteration 2 and iteration 3 or
\* later.
C32_HistoryOneShortOfIteration ==
    /\ pc \in {"vote", "quick", "act"} =>
          /\ history_len = iteration - 1
          /\ (history_len = 0) = (iteration = 1)
          /\ (history_len = 1) = (iteration = 2)
          /\ (history_len >= 2) = (iteration >= 3)
    /\ pc = "loop" => history_len = iteration

\* C32 witness: the vote of the fifth iteration, after a failed test and an
\* unknown action.
C32_Witness ==
    /\ pc = "vote"
    /\ iteration = 5
    /\ history_len = 4
    /\ history_last.action = "analyze_results"

\* C33: while a run is in its loop, no test_skill entry of the history
\* succeeded: neither the check of the last entry at the top of an iteration
\* nor the shortcut of _vote_on_action can fire, and a passed test is found
\* only in a run that returned success.
C33_NoPassedTestInsideTheLoop ==
    /\ pc \in {"loop", "vote", "quick", "act"} =>
          /\ ~tested_ok
          /\ ~LastTestPassed(history_len, history_last)
    /\ tested_ok => (pc = "done" /\ ret.success)

\* C33 witness: a second test passed in iteration 6, and the run returned in
\* that iteration.
C33_Witness ==
    /\ pc = "done"
    /\ tested_ok
    /\ LastTestPassed(history_len, history_last)
    /\ ret.success
    /\ ret.iterations = 6
    /\ iteration = 6

\* C34: when test_skill is about to be executed on a non-empty artifact, the
\* file the last successful write_skill of the run wrote holds that artifact.
C34_TestedArtifactIsWritten ==
    (pc = "act" /\ action = "test_skill" /\ skill_code # "") =>
        skill_file = skill_code

\* C34 witness: a second artifact, planned after the first one failed its
\* test, is written and about to be tested in iteration 6.
C34_Witness ==
    /\ pc = "act"
    /\ action = "test_skill"
    /\ iteration = 6
    /\ skill_code = "codeB"
    /\ skill_file = "codeB"
    /\ history_last.action = "write_skill"

\* C35: a run that returns success returns a non-empty artifact.
C35_SuccessHasArtifact ==
    (pc = "done" /\ ret.success) => ret.result # ""


-----------------------------------------------------------------------------
(* The selector's answer against the listing: C36 (checked under SpecSelect) *)

\* C36: a model select_for_task returns from its resident pass or from its
\* acquisition pass is listed by `ollama list` when the call returns, under
\* the name a pull of that id is listed with, also when the listing holds
\* another tag of the same base name.
C36_ReturnedIdIsResident ==
    (sel.called /\ sel.path \in {"resident", "acquired"}) =>
        ListedName(sel.ret) \in Range(installed)


-----------------------------------------------------------------------------
(* The record of what the swarm downloaded: C37 (checked under SpecEvict) *)

\* C37: from an empty registry, every call of ensure_available,
\* cleanup_unused and free_space_for leaves downloaded_by_swarm without
\* duplicates and within the catalog; a model enters it only in a step whose
\* pull of that model succeeded (it was not installed and is now listed), it
\* leaves it only in a call of the uninstaller whose `ollama rm` of it
\* succeeded, and every model such a call removed has left it.
C37_DownloadedBySwarmExact ==
    [][ LET old == Range(downloaded_by_swarm)
            new == Range(downloaded_by_swarm')
        IN  /\ Len(downloaded_by_swarm') = Cardinality(new)
            /\ new \subseteq CatalogIds
            /\ \A m \in new \ old :
                  /\ ~is_installed(m, installed)
                  /\ installed' = << ListedName(m) >> \o installed
                  /\ downloaded_by_swarm' = Append(downloaded_by_swarm, m)
            /\ \A m \in old \ new :
                  /\ pc = "idle" /\ pc' = "evicted"
                  /\ m \in Range(ev'.gone)
            /\ (pc = "idle" /\ pc' = "evicted") =>
                  \A m \in Range(ev'.gone) : m \in old \ new ]_vars

\* C37 witness: of three models the swarm pulled, cleanup_unused removed
\* tinyllama and failed to remove qwen2.5-coder:1.5b; the record holds the
\* two that are left.
C37_Witness ==
    /\ pc = "evicted"
    /\ ev.called
    /\ Len(ev.swarm) = 3
    /\ ev.attempted = << "tinyllama", "qwen2.5-coder:1.5b" >>
    /\ ev.gone = << "tinyllama" >>
    /\ downloaded_by_swarm = << "qwen2.5:0.5b", "qwen2.5-coder:1.5b" >>

=============================================================================
